---- MODULE Spec2Model ----
(***************************************************************************)
(* Token lifecycle and credential-reset state machine of jwt-auth-express  *)
(* on TiDB Cloud: the controllers of src/controllers/authController.js,    *)
(* the store operations of src/models/User.js and the connection pool of   *)
(* src/config/database.js.                                                 *)
(*                                                                         *)
(* Every awaited store call of a handler is one step, so that handlers of  *)
(* concurrent requests interleave exactly where the event loop lets them.  *)
(* The store is a mysql2 pool: each db.execute() runs its one statement on *)
(* whichever pooled connection is handed out, so START TRANSACTION, the    *)
(* data statements, COMMIT and ROLLBACK of one operation each pick their   *)
(* connection independently.  Which connection that is depends on the      *)
(* pool's queue discipline and on what other statements (of these handlers *)
(* or of read-only routes such as GET /me) hold a connection at that       *)
(* moment, so every statement may take any connection.                     *)
(*                                                                         *)
(* A connection with no transaction open is in autocommit mode.  A         *)
(* transaction's writes stay pending on its connection, visible to reads   *)
(* on that connection only, until a COMMIT or a further START TRANSACTION  *)
(* reaches that connection; a ROLLBACK that reaches it discards them.      *)
(* Reads see the latest committed rows; row locks are not modelled.        *)
(***************************************************************************)
EXTENDS Integers, Sequences, FiniteSets, TLC

(* ------------------------------ bounds -------------------------------- *)
NumUsers == 1
NumConns == 2
NumSlots == 2
MaxRequests == 3
MaxFaults == 1
MaxTime == 1
\* requests served where users hold several sessions
MaxDeviceRequests == 2
MaxInits == 2
MaxCalls == 2

(* -------------------------- program constants -------------------------- *)
\* clock unit: one hour
ResetTTL == 1
RefreshRowTTL == 168
RefreshTokenExpiry == 168
\* tokenExpiry.refresh = '30d', a value the option is given in place of '7d'
LongRefreshExpiry == 720
\* tokenExpiry.access = '15m', in quarters of the clock unit
AccessTokenExpiry == 1

UserIds == 1..NumUsers
Conns == 1..NumConns
Slots == 1..NumSlots

VARIABLES
    now,        \* the clock read by NOW() and by the token codec
    db,         \* committed rows: [users, rt, pr]
    conns,      \* per pooled connection: open transaction and its pending writes
    reqs,       \* per request slot: the handler in flight and its locals
    nreq,       \* requests started so far
    faults,     \* store / mail calls that have failed so far
    nextJti,    \* tokens signed so far
    nextRaw,    \* reset tokens generated so far
    issued,     \* refresh tokens handed to clients
    mailbox,    \* reset links mailed to users
    rotated,    \* refresh tokens a successful refresh has consumed
    revoked,    \* refresh tokens that were issued before a successful reset
    consumed,   \* reset links a successful resetPassword has used
    superseded, \* reset links older than a later completed forgotPassword
    lib         \* the JwtAuthExpress instance: its options, fields and calls

vars == <<now, db, conns, reqs, nreq, faults, nextJti, nextRaw, issued, mailbox,
          rotated, revoked, consumed, superseded, lib>>

histVars == <<issued, mailbox, rotated, revoked, consumed, superseded>>

(* ------------------------ consumed capabilities ------------------------ *)
InitialPassword == "pw0"
NewPasswords == {"pw1"}
Passwords == {InitialPassword} \cup NewPasswords

EmailOf(u) == [addr |-> u]
UnknownEmail == [addr |-> 0]
\* the address a sign-up brings, and the id AUTO_INCREMENT gives its row
NewUserId == NumUsers + 1
NewEmail == EmailOf(NewUserId)

\* a body.email that is not an email address ('invalid-email'), what
\* normalizeEmail() makes of it ('@invalid-email'), and the id AUTO_INCREMENT
\* gives a row that holds the latter
MalformedEmail == [addr |-> -1]
MangledUserId == NumUsers + 2
MangledEmail == EmailOf(MangledUserId)
\* express-validator: isEmail() and the sanitizer normalizeEmail(); the
\* addresses of real users are in normalized form already
isEmail(email) == email \notin {MalformedEmail, MangledEmail}
normalizeEmail(email) == IF email = MalformedEmail THEN MangledEmail ELSE email

\* CryptoUtils.hashPassword / comparePassword
hashPassword(p) == [bcrypt |-> p]
comparePassword(p, digest) == digest.bcrypt = p

\* CryptoUtils.hashResetToken: deterministic digest of the raw token
hashResetToken(raw) == [sha |-> raw]
GuessedRaw == 0

\* JWTUtils.generateRefreshToken / verifyRefreshToken
NoTok == [uid |-> 0, iat |-> 0, exp |-> 0, jti |-> 0, sig |-> FALSE]
ForgedTok == [uid |-> 1, iat |-> 0, exp |-> RefreshTokenExpiry, jti |-> 0, sig |-> FALSE]
\* a codec whose token is determined by its payload (userId, iat) alone
generateRefreshToken_payloadOnly(u, t, n) ==
    [uid |-> u, iat |-> t, exp |-> t + RefreshTokenExpiry, jti |-> 1, sig |-> TRUE]
\* the token carries its own expiry, fixed when it is signed
generateRefreshToken(u, t, n) ==
    [uid |-> u, iat |-> t, exp |-> t + RefreshTokenExpiry, jti |-> n, sig |-> TRUE]
verifyRefreshToken(tok, t) == tok.sig /\ t < tok.exp
\* a refresh token signed RefreshRowTTL - 1 hours ago while tokenExpiry.refresh
\* was '30d': the codec accepts it long after its row has expired
AgedTok ==
    [uid |-> 1, iat |-> 1 - RefreshRowTTL, exp |-> 1 - RefreshRowTTL + LongRefreshExpiry,
     jti |-> 1, sig |-> TRUE]

\* JWTUtils.generateAccessToken / verifyAccessToken: signed with the access key
generateAccessToken(u, email, t) ==
    [uid |-> u, email |-> email, iat |-> t, key |-> "access"]
ForgedAccess == [uid |-> 1, email |-> EmailOf(1), iat |-> 0, key |-> "forged"]
verifyAccessToken(tok, t) ==
    tok.key = "access" /\ tok.iat <= t /\ 4 * (t - tok.iat) < AccessTokenExpiry
\* the claims verifyAccessToken returns
decoded(tok) == [userId |-> tok.uid, email |-> tok.email]
\* the access tokens that responses have handed to clients and not replaced yet
HeldAccess ==
    {reqs[k].newAccess : k \in {k \in Slots : reqs[k].pc = "done" /\ reqs[k].cookies = "set"}}
\* the access tokens a client may present at time t: one just issued, one issued
\* an hour before, one that the access key did not sign, and those it was handed
AccessTokens(t) ==
    {generateAccessToken(u, EmailOf(u), i) : u \in UserIds, i \in {t - 1, t}}
        \cup {ForgedAccess} \cup HeldAccess

(* ------------------------- what a request carries ---------------------- *)
\* JavaScript's undefined and the empty string, both falsy
Undefined == [uid |-> 0, email |-> UnknownEmail, iat |-> 0, key |-> "undefined"]
EmptyString == [uid |-> 0, email |-> UnknownEmail, iat |-> 0, key |-> "empty"]
falsy(tok) == tok.key \in {"undefined", "empty"}

\* req.headers['authorization'] as split(' ') sees it: absent, or a number of
\* parts of which the second is the token
NoHeader == [present |-> FALSE, parts |-> 0, second |-> Undefined]
Headers(t) ==
    {NoHeader, [present |-> TRUE, parts |-> 1, second |-> Undefined]}
        \cup {[present |-> TRUE, parts |-> 2, second |-> tok] :
                 tok \in AccessTokens(t) \cup {EmptyString}}
headerToken(h) == IF h.present /\ h.parts >= 2 THEN h.second ELSE Undefined

\* req.cookies: undefined unless the host application parses cookies
NoCookies == [parsed |-> FALSE, accessToken |-> Undefined, refreshToken |-> NoTok]
AccessJars(t) ==
    {NoCookies} \cup {[NoCookies EXCEPT !.parsed = TRUE, !.accessToken = tok] :
                        tok \in AccessTokens(t) \cup {Undefined}}
RefreshJars(toks) ==
    {NoCookies} \cup {[NoCookies EXCEPT !.parsed = TRUE, !.refreshToken = tok] :
                        tok \in toks \cup {NoTok}}

(* ------------------------------ the store ------------------------------ *)
NoOp == [type |-> "none", user |-> 0, tok |-> NoTok, exp |-> 0, pw |-> hashPassword("")]

\* a DELETE that matches on user_id alone
DeleteRT_wholeUser(u, tok) == [NoOp EXCEPT !.type = "delAllRT", !.user = u, !.tok = tok]
DeleteRT(u, tok) == [NoOp EXCEPT !.type = "delRT", !.user = u, !.tok = tok]
InsertRT(u, tok, t) ==
    [NoOp EXCEPT !.type = "insRT", !.user = u, !.tok = tok, !.exp = t + RefreshRowTTL]
DeleteAllRT(u) == [NoOp EXCEPT !.type = "delAllRT", !.user = u]
UpdatePw(u, digest) == [NoOp EXCEPT !.type = "setPw", !.user = u, !.pw = digest]
InvalidatePR(u) == [NoOp EXCEPT !.type = "invalPR", !.user = u]
InsertPR(u, digest, t) ==
    [NoOp EXCEPT !.type = "insPR", !.user = u, !.tok = digest, !.exp = t + ResetTTL]
InsertUser(u, digest) == [NoOp EXCEPT !.type = "insUser", !.user = u, !.pw = digest]

\* the effect of one data statement on a set of tables
Apply(d, op) ==
    CASE op.type = "delRT" ->
            [d EXCEPT !.rt = {r \in @ : ~(r.user_id = op.user /\ r.token = op.tok)}]
      [] op.type = "insRT" ->
            [d EXCEPT !.rt = @ \cup {[user_id |-> op.user, token |-> op.tok,
                                      expires_at |-> op.exp]}]
      [] op.type = "delAllRT" ->
            [d EXCEPT !.rt = {r \in @ : r.user_id # op.user}]
      [] op.type = "setPw" ->
            [d EXCEPT !.users = {IF u.id = op.user /\ u.is_active
                                    THEN [u EXCEPT !.password = op.pw] ELSE u : u \in @}]
      [] op.type = "invalPR" ->
            [d EXCEPT !.pr = {IF r.user_id = op.user
                                 THEN [r EXCEPT !.is_valid = FALSE] ELSE r : r \in @}]
      [] op.type = "insPR" ->
            [d EXCEPT !.pr = @ \cup {[user_id |-> op.user, token |-> op.tok,
                                      is_valid |-> TRUE, expires_at |-> op.exp]}]
      [] op.type = "insUser" ->
            [d EXCEPT !.users = @ \cup {[id |-> op.user, email |-> EmailOf(op.user),
                                         password |-> op.pw, is_active |-> TRUE]}]
      [] OTHER -> d

RECURSIVE ApplyAll(_, _)
ApplyAll(d, log) ==
    IF log = <<>> THEN d ELSE ApplyAll(Apply(d, Head(log)), Tail(log))

\* what a statement run on connection c reads: the committed rows and the
\* pending writes of the transaction open on c
View(c) == IF conns[c].inTx THEN ApplyAll(db, conns[c].log) ELSE db

\* a data statement on connection c: pending if c has a transaction open,
\* committed at once (autocommit) otherwise
WriteDb(c, op) == IF conns[c].inTx THEN db ELSE Apply(db, op)
WriteConns(c, op) ==
    IF conns[c].inTx THEN [conns EXCEPT ![c].log = Append(@, op)] ELSE conns

\* START TRANSACTION on c commits whatever transaction c had open
BeginDb(c) == View(c)
BeginConns(c) == [conns EXCEPT ![c] = [inTx |-> TRUE, log |-> <<>>]]
CommitDb(c) == View(c)
CommitConns(c) == [conns EXCEPT ![c] = [inTx |-> FALSE, log |-> <<>>]]
RollbackConns(c) == [conns EXCEPT ![c] = [inTx |-> FALSE, log |-> <<>>]]

\* User._formatUser: the user object the finders return
formatUser(row) ==
    [id |-> row.id, email |-> row.email, password |-> row.password,
     isActive |-> row.is_active]
NoUser == [id |-> 0, email |-> UnknownEmail, password |-> hashPassword(""),
           isActive |-> FALSE]

\* a lookup by email that returns the row whether or not it is active
findByEmail_any(d, email) == {u \in d.users : u.email = email}

\* the SELECT of findByEmail
findByEmail(d, email) == {u \in d.users : u.email = email /\ u.is_active}

\* a lookup that does not filter expired rows
findByRefreshToken_unexpiring(d, uid, tok, t) ==
    {u \in d.users : u.id = uid /\ u.is_active
                     /\ \E r \in d.rt : r.user_id = uid /\ r.token = tok}

\* the SELECT of findByRefreshToken
findByRefreshToken(d, uid, tok, t) ==
    {u \in d.users : u.id = uid /\ u.is_active
                     /\ \E r \in d.rt : r.user_id = uid /\ r.token = tok
                                        /\ r.expires_at > t}

\* a lookup that accepts a valid link whichever user it was issued for
findValidPasswordResetToken_anyUser(d, uid, raw, t) ==
    {u \in d.users : u.id = uid /\ u.is_active
                     /\ \E r \in d.pr : r.token = hashResetToken(raw)
                                        /\ r.is_valid /\ r.expires_at > t}

\* the SELECT of findValidPasswordResetToken
findValidPasswordResetToken(d, uid, raw, t) ==
    {u \in d.users : u.id = uid /\ u.is_active
                     /\ \E r \in d.pr : r.user_id = uid /\ r.token = hashResetToken(raw)
                                        /\ r.is_valid /\ r.expires_at > t}

\* the SELECT of findById
findById(d, uid) == {u \in d.users : u.id = uid /\ u.is_active}

\* users.email is UNIQUE: an INSERT on connection c meets the email in the rows
\* it reads, or pending in a transaction of another connection, for which it
\* waits until that one commits or the lock wait times out
duplicateEntry(c, email) ==
    \/ \E u \in View(c).users : u.email = email
    \/ \E k \in Conns : \E u \in View(k).users : u.email = email

\* affectedRows of the password UPDATE
updateAffected(d, uid) == Cardinality({u \in d.users : u.id = uid /\ u.is_active})

\* affectedRows of the rotation's DELETE
deleteAffected(d, uid, tok) ==
    Cardinality({r \in d.rt : r.user_id = uid /\ r.token = tok})


(* ------------------------------ requests ------------------------------- *)
\* a response body without a data member
NoData == [none |-> TRUE]
Idle == [kind |-> "idle", pc |-> "idle", uid |-> 0, tok |-> NoTok, raw |-> GuessedRaw,
         pw |-> "", newTok |-> NoTok, exp |-> 0, affected |-> -1,
         status |-> 0, message |-> "",
         replay |-> FALSE, stale |-> FALSE, why |-> "", seen |-> {},
         faulted |-> FALSE, rolled |-> FALSE,
         email |-> UnknownEmail, hdr |-> NoHeader, jar |-> NoCookies,
         user |-> 0, next |-> 0, rows |-> {}, at |-> 0, cookies |-> "none",
         detail |-> FALSE, found |-> NoUser, newAccess |-> Undefined, data |-> NoData,
         errors |-> {}, keys |-> {}]

\* a response body with the whole user object in it
userData_whole(user) == [user |-> user]
\* data: { user: { id, email, name } } of a success response
userData(user) == [user |-> [id |-> user.id, email |-> user.email]]

Free(s) == reqs[s].pc \in {"idle", "done"}
\* an arriving request is served in the first slot that is free
Accept(s) == Free(s) /\ nreq < MaxRequests /\ \A t \in Slots : t < s => ~Free(t)

\* a handler is entered in slot s
Enter(s, r) == [reqs EXCEPT ![s] = r]

Respond(r, status, message) ==
    [r EXCEPT !.pc = "done", !.status = status, !.message = message]

\* a catch block's response: it carries error.message as well
Failed(r, status, message) ==
    [Respond(r, status, message) EXCEPT !.faulted = TRUE, !.detail = TRUE]

\* _setAuthCookies / _clearAuthCookies on the response
setAuthCookies(r) == [r EXCEPT !.cookies = "set"]
clearAuthCookies(r) == [r EXCEPT !.cookies = "cleared"]

(* --------------------------- JwtAuthExpress ---------------------------- *)
\* the options the constructor tests, each present or missing
Options ==
    [secret : BOOLEAN, refreshSecret : BOOLEAN, host : BOOLEAN, database : BOOLEAN,
     username : BOOLEAN, password : BOOLEAN]
AllOptions == [secret |-> TRUE, refreshSecret |-> TRUE, host |-> TRUE, database |-> TRUE,
               username |-> TRUE, password |-> TRUE]
InitCalls == 1 .. MaxInits
NoCall == [call |-> "none", threw |-> FALSE, message |-> "",
           after |-> [i \in InitCalls |-> "idle"]]
\* no instance yet; the fields a constructed instance starts with are null
NoInstance ==
    [built |-> FALSE, options |-> AllOptions, thrown |-> "",
     db |-> FALSE, userModel |-> FALSE, authController |-> FALSE,
     tokenController |-> FALSE, inits |-> [i \in InitCalls |-> "idle"],
     mounted |-> FALSE, calls |-> 0, last |-> NoCall]
\* the instance whose init() has resolved and whose routes setupApp has mounted
Ready ==
    [NoInstance EXCEPT !.built = TRUE, !.db = TRUE, !.userModel = TRUE,
                       !.authController = TRUE, !.tokenController = TRUE,
                       !.inits = [i \in InitCalls |-> IF i = 1 THEN "ok" ELSE "idle"],
                       !.mounted = TRUE]

\* new JwtAuthExpress(options): the two tests of the constructor
construct ==
    /\ ~lib.built /\ lib.thrown = ""
    /\ \E o \in Options :
         lib' = IF ~o.secret \/ ~o.refreshSecret
                THEN [lib EXCEPT !.options = o, !.thrown = "JWT secrets are required"]
                ELSE IF ~o.host \/ ~o.database \/ ~o.username \/ ~o.password
                THEN [lib EXCEPT !.options = o, !.thrown =
                        "TiDB Cloud configuration requires host, database, username, and password"]
                ELSE [lib EXCEPT !.options = o, !.built = TRUE]
    /\ UNCHANGED <<now, db, conns, reqs, nreq, faults, nextJti, nextRaw, histVars>>

\* an init() that creates the controllers as soon as the pool is there
init_connected_eager(l, i) ==
    [l EXCEPT !.db = TRUE, !.userModel = TRUE, !.authController = TRUE,
              !.tokenController = TRUE, !.inits[i] = "tables"]
\* init(): this.db and this.userModel once createTiDBConnection has resolved
init_connected(l, i) ==
    [l EXCEPT !.db = TRUE, !.userModel = TRUE, !.inits[i] = "tables"]
\* init(): the controllers once initDatabase has resolved
init_resolved(l, i) ==
    [l EXCEPT !.authController = TRUE, !.tokenController = TRUE, !.inits[i] = "ok"]
\* init(): the catch block, throw new Error('Failed to initialize TiDB Cloud: ...')
init_rejected(l, i) == [l EXCEPT !.inits[i] = "failed"]

\* a call of init(), up to its first await
init(i) ==
    /\ lib.built /\ lib.inits[i] = "idle"
    /\ \A j \in InitCalls : j < i => lib.inits[j] # "idle"
    /\ lib' = [lib EXCEPT !.inits[i] = "connect"]
    /\ UNCHANGED <<now, db, conns, reqs, nreq, faults, nextJti, nextRaw, histVars>>

\* init(): await DatabaseConfig.createTiDBConnection(this.dbConfig)
init_createTiDBConnection(i) ==
    /\ lib.inits[i] = "connect"
    /\ lib' \in {init_connected(lib, i), init_rejected(lib, i)}
    /\ UNCHANGED <<now, db, conns, reqs, nreq, faults, nextJti, nextRaw, histVars>>

\* init(): await this.userModel.initDatabase(), then the two controllers
init_initDatabase(i) ==
    /\ lib.inits[i] = "tables"
    /\ lib' \in {init_resolved(lib, i), init_rejected(lib, i)}
    /\ UNCHANGED <<now, db, conns, reqs, nreq, faults, nextJti, nextRaw, histVars>>

\* the test that opens setupApp, getRoutes (authController) and getTokenRoutes
\* (tokenController)
notInitialized(l, call) ==
    IF call = "getTokenRoutes" THEN ~l.tokenController ELSE ~l.authController
NotInitializedMessage == "Authentication system not initialized. Call init() first."
called(l, call) ==
    [l EXCEPT !.calls = @ + 1,
              !.last = [call |-> call, threw |-> notInitialized(l, call),
                        message |-> IF notInitialized(l, call)
                                    THEN NotInitializedMessage ELSE "",
                        after |-> l.inits],
              !.mounted = @ \/ (call = "setupApp" /\ ~notInitialized(l, call))]

setupApp ==
    /\ lib.built /\ lib.calls < MaxCalls
    /\ lib' = called(lib, "setupApp")
    /\ UNCHANGED <<now, db, conns, reqs, nreq, faults, nextJti, nextRaw, histVars>>

getRoutes ==
    /\ lib.built /\ lib.calls < MaxCalls
    /\ lib' = called(lib, "getRoutes")
    /\ UNCHANGED <<now, db, conns, reqs, nreq, faults, nextJti, nextRaw, histVars>>

getTokenRoutes ==
    /\ lib.built /\ lib.calls < MaxCalls
    /\ lib' = called(lib, "getTokenRoutes")
    /\ UNCHANGED <<now, db, conns, reqs, nreq, faults, nextJti, nextRaw, histVars>>

LibSteps ==
    \/ construct
    \/ \E i \in InitCalls : init(i) \/ init_createTiDBConnection(i) \/ init_initDatabase(i)
    \/ setupApp \/ getRoutes \/ getTokenRoutes

InitDb ==
    [users |-> {[id |-> u, email |-> EmailOf(u), password |-> hashPassword(InitialPassword),
                 is_active |-> TRUE] : u \in UserIds},
     rt |-> {[user_id |-> u, token |-> generateRefreshToken(u, 0, u),
              expires_at |-> RefreshRowTTL] : u \in UserIds},
     pr |-> {}]

Init ==
    /\ now = 0
    /\ db = InitDb
    /\ conns = [c \in Conns |-> [inTx |-> FALSE, log |-> <<>>]]
    /\ reqs = [s \in Slots |-> Idle]
    /\ nreq = 0
    /\ faults = 0
    /\ nextJti = NumUsers + 1
    /\ nextRaw = 1
    /\ issued = {generateRefreshToken(u, 0, u) : u \in UserIds}
    /\ mailbox = {}
    /\ rotated = {}
    /\ revoked = {}
    /\ consumed = {}
    /\ superseded = {}
    /\ lib = Ready

\* the state in which user 1's session is the aged one: its row, stored when the
\* token was signed, expires at hour 1
InitAged ==
    /\ now = 0
    /\ db = [InitDb EXCEPT !.rt = {[user_id |-> AgedTok.uid, token |-> AgedTok,
                                    expires_at |-> AgedTok.iat + RefreshRowTTL]}
                                  \cup {r \in @ : r.user_id # AgedTok.uid}]
    /\ conns = [c \in Conns |-> [inTx |-> FALSE, log |-> <<>>]]
    /\ reqs = [s \in Slots |-> Idle]
    /\ nreq = 0
    /\ faults = 0
    /\ nextJti = NumUsers + 1
    /\ nextRaw = 1
    /\ issued = {AgedTok} \cup {generateRefreshToken(u, 0, u) : u \in UserIds \ {AgedTok.uid}}
    /\ mailbox = {}
    /\ rotated = {}
    /\ revoked = {}
    /\ consumed = {}
    /\ superseded = {}
    /\ lib = Ready

\* the state in which a second account, signed up earlier, exists beside user 1
PairDb ==
    [InitDb EXCEPT
       !.users = @ \cup {[id |-> NewUserId, email |-> NewEmail,
                          password |-> hashPassword(InitialPassword),
                          is_active |-> TRUE]},
       !.rt = @ \cup {[user_id |-> NewUserId,
                       token |-> generateRefreshToken(NewUserId, 0, NewUserId),
                       expires_at |-> RefreshRowTTL]}]
InitPair ==
    /\ now = 0
    /\ db = PairDb
    /\ conns = [c \in Conns |-> [inTx |-> FALSE, log |-> <<>>]]
    /\ reqs = [s \in Slots |-> Idle]
    /\ nreq = 0
    /\ faults = 0
    /\ nextJti = NewUserId + 1
    /\ nextRaw = 1
    /\ issued = {generateRefreshToken(u, 0, u) : u \in UserIds \cup {NewUserId}}
    /\ mailbox = {}
    /\ rotated = {}
    /\ revoked = {}
    /\ consumed = {}
    /\ superseded = {}
    /\ lib = Ready

\* the state in which user 1 is signed in on two devices, a second account has
\* one session, and user 1 has been mailed a reset link that is still valid
SecondDeviceTok == generateRefreshToken(1, 0, NewUserId + 1)
DevicesDb ==
    [PairDb EXCEPT
       !.rt = @ \cup {[user_id |-> 1, token |-> SecondDeviceTok,
                       expires_at |-> RefreshRowTTL]},
       !.pr = {[user_id |-> 1, token |-> hashResetToken(1), is_valid |-> TRUE,
                expires_at |-> ResetTTL]}]
InitDevices ==
    /\ now = 0
    /\ db = DevicesDb
    /\ conns = [c \in Conns |-> [inTx |-> FALSE, log |-> <<>>]]
    /\ reqs = [s \in Slots |-> Idle]
    \* the requests that opened the sessions were started before
    /\ nreq = MaxRequests - MaxDeviceRequests
    /\ faults = 0
    /\ nextJti = NewUserId + 2
    /\ nextRaw = 2
    /\ issued = {generateRefreshToken(u, 0, u) : u \in UserIds \cup {NewUserId}}
                   \cup {SecondDeviceTok}
    /\ mailbox = {[uid |-> 1, raw |-> 1, exp |-> ResetTTL]}
    /\ rotated = {}
    /\ revoked = {}
    /\ consumed = {}
    /\ superseded = {}
    /\ lib = Ready

(* ----------------------------- middleware ----------------------------- *)
\* a lookup that takes the accessToken cookie first and the header after it
findToken_cookieFirst(hdr, jar) ==
    IF jar.parsed /\ ~falsy(jar.accessToken) THEN jar.accessToken ELSE headerToken(hdr)

\* the token the middleware finds: the header's, else the accessToken cookie
findToken(hdr, jar) ==
    IF falsy(headerToken(hdr)) /\ jar.parsed THEN jar.accessToken ELSE headerToken(hdr)

Proceed(uid) == [next |-> 1, user |-> uid, status |-> 0, message |-> ""]
Reject(status, message) == [next |-> 0, user |-> 0, status |-> status, message |-> message]

\* variants of the guard: one that answers every failure alike, and one that
\* also wants a live session of the user in the store
authenticateToken_alike(hdr, jar, t) ==
    IF ~falsy(findToken(hdr, jar)) /\ verifyAccessToken(findToken(hdr, jar), t)
    THEN Proceed(findToken(hdr, jar).uid)
    ELSE Reject(401, "Access token required")
authenticateToken_session(hdr, jar, t) ==
    IF falsy(findToken(hdr, jar)) THEN Reject(401, "Access token required")
    ELSE IF /\ verifyAccessToken(findToken(hdr, jar), t)
            /\ \E r \in db.rt : r.user_id = findToken(hdr, jar).uid
         THEN Proceed(findToken(hdr, jar).uid)
         ELSE Reject(403, "Invalid or expired token")

\* authenticateToken: what it sends, whether it calls next, and req.user
authenticateToken(hdr, jar, t) ==
    IF falsy(findToken(hdr, jar)) THEN Reject(401, "Access token required")
    ELSE IF verifyAccessToken(findToken(hdr, jar), t)
         THEN Proceed(findToken(hdr, jar).uid)
         ELSE Reject(403, "Invalid or expired token")

\* a variant of optionalAuth that turns a bad token away
optionalAuth_strict(hdr, jar, t) ==
    IF falsy(findToken(hdr, jar)) THEN Proceed(0)
    ELSE IF verifyAccessToken(findToken(hdr, jar), t)
         THEN Proceed(findToken(hdr, jar).uid)
         ELSE Reject(403, "Invalid or expired token")

\* optionalAuth: req.user only when a token is found and verified; next always
optionalAuth(hdr, jar, t) ==
    IF ~falsy(findToken(hdr, jar)) /\ verifyAccessToken(findToken(hdr, jar), t)
    THEN Proceed(findToken(hdr, jar).uid)
    ELSE Proceed(0)

\* GET /me: authenticateToken, then AuthController.getCurrentUser
getCurrentUser(s) ==
    /\ Accept(s)
    /\ nreq' = nreq + 1
    /\ \E hdr \in Headers(now), jar \in AccessJars(now) :
         LET g == authenticateToken(hdr, jar, now)
             r == [Idle EXCEPT !.kind = "me", !.hdr = hdr, !.jar = jar, !.at = now,
                               !.rows = db.rt, !.next = g.next, !.user = g.user,
                               !.email = IF g.next = 1
                                         THEN decoded(findToken(hdr, jar)).email
                                         ELSE UnknownEmail]
         IN
         \/ /\ g.next = 0
            /\ reqs' = Enter(s, Respond(r, g.status, g.message))
            /\ faults' = faults
         \/ /\ g.next = 1
            /\ \E c \in Conns :
                 reqs' = Enter(s, IF g.user = 0
                                  THEN Respond(r, 401, "User not authenticated")
                                  ELSE IF findById(View(c), g.user) = {}
                                       THEN Respond(r, 404, "User not found")
                                       ELSE LET u == formatUser(CHOOSE u \in
                                                       findById(View(c), g.user) : TRUE)
                                            IN [Respond(r, 200, "") EXCEPT
                                                  !.found = u, !.data = userData(u)])
            /\ faults' = faults
         \/ /\ g.next = 1
            /\ faults < MaxFaults
            /\ faults' = faults + 1
            /\ reqs' = Enter(s, Failed(r, 500, "Error fetching user data"))
    /\ UNCHANGED <<lib, now, db, conns, nextJti, nextRaw, histVars>>

\* a route of the host application behind getOptionalAuthMiddleware(): the
\* request as optionalAuth hands it on
optionalRoute(s) ==
    /\ Accept(s)
    /\ nreq' = nreq + 1
    /\ \E hdr \in Headers(now), jar \in AccessJars(now) :
         LET g == optionalAuth(hdr, jar, now) IN
         reqs' = Enter(s, [Respond(Idle, g.status, g.message)
                             EXCEPT !.kind = "optional", !.hdr = hdr, !.jar = jar,
                                    !.at = now, !.rows = db.rt, !.next = g.next,
                                    !.user = g.user])
    /\ UNCHANGED <<lib, now, db, conns, faults, nextJti, nextRaw, histVars>>

(* ------------------------- AuthController.signUp ----------------------- *)
\* a validation middleware that answers 400 when the chain recorded errors
validationMiddleware_strict(errors) == errors = {}
\* signUpValidation: the errors the chain records on the request
signUpValidation(email) == IF isEmail(email) THEN {} ELSE {"email"}
\* the validation middleware setupApp defaults to, and the tests pass:
\* (req, res, next) => next(), whatever the chain recorded
validationMiddleware(errors) == TRUE

\* POST /signup: the validation chain, the validation middleware, then the
\* handler and its own findByEmail
signUp(s) ==
    /\ Accept(s)
    /\ nreq' = nreq + 1
    /\ \E body \in {EmailOf(u) : u \in UserIds} \cup {NewEmail, MalformedEmail} :
         LET email == normalizeEmail(body)
             r == [Idle EXCEPT !.kind = "signUp", !.email = email,
                               !.pw = InitialPassword,
                               !.errors = signUpValidation(body)]
         IN
         \/ /\ ~validationMiddleware(r.errors)
            /\ reqs' = Enter(s, Respond(r, 400, "Validation failed"))
            /\ faults' = faults
         \/ /\ validationMiddleware(r.errors)
            /\ \E c \in Conns :
                 IF findByEmail(View(c), email) # {}
                 THEN reqs' = Enter(s, Respond([r EXCEPT !.why = "duplicate"], 400,
                                               "User already exists with this email"))
                 ELSE reqs' = Enter(s, [r EXCEPT !.pc = "create"])
            /\ faults' = faults
         \/ /\ validationMiddleware(r.errors)
            /\ faults < MaxFaults
            /\ faults' = faults + 1
            /\ reqs' = Enter(s, Failed(r, 500, "Error creating user"))
    /\ UNCHANGED <<lib, now, db, conns, nextJti, nextRaw, histVars>>

\* User.create: its findByEmail; a hit throws, and the handler's catch answers
create(s) ==
    /\ reqs[s].kind = "signUp" /\ reqs[s].pc = "create"
    /\ \E c \in Conns :
         reqs' = [reqs EXCEPT ![s] =
                    IF findByEmail(View(c), @.email) # {}
                    THEN [Respond([@ EXCEPT !.why = "duplicate"], 500,
                                  "Error creating user") EXCEPT !.detail = TRUE]
                    ELSE [@ EXCEPT !.pc = "begin"]]
    /\ UNCHANGED <<lib, now, db, conns, nreq, faults, nextJti, nextRaw, histVars>>

\* User.create: INSERT INTO users; a duplicate email is rejected by the UNIQUE
\* index and the operation rolls back and rethrows
create_insert(s) ==
    /\ reqs[s].kind = "signUp" /\ reqs[s].pc = "insertUser"
    /\ \E c \in Conns :
         IF duplicateEntry(c, reqs[s].email)
         THEN /\ reqs' = [reqs EXCEPT ![s].pc = "rollback", ![s].why = "duplicate"]
              /\ UNCHANGED <<db, conns>>
         ELSE /\ db' = WriteDb(c, InsertUser(reqs[s].email.addr, hashPassword(reqs[s].pw)))
              /\ conns' = WriteConns(c, InsertUser(reqs[s].email.addr,
                                                   hashPassword(reqs[s].pw)))
              /\ reqs' = [reqs EXCEPT ![s].pc = "commit", ![s].uid = reqs[s].email.addr]
    /\ UNCHANGED <<lib, now, nreq, faults, nextJti, nextRaw, histVars>>

\* User.create: findById(insertId); the handler reads user.id of what it
\* returns, which throws on null, and signs the tokens
create_findById(s) ==
    /\ reqs[s].kind = "signUp" /\ reqs[s].pc = "findById"
    /\ \E c \in Conns :
         IF findById(View(c), reqs[s].uid) = {}
         THEN /\ reqs' = [reqs EXCEPT ![s] =
                            [Respond([@ EXCEPT !.why = "not found"], 500,
                                     "Error creating user") EXCEPT !.detail = TRUE]]
              /\ nextJti' = nextJti
         ELSE LET u == formatUser(CHOOSE u \in findById(View(c), reqs[s].uid) : TRUE) IN
              /\ reqs' = [reqs EXCEPT ![s].pc = "store", ![s].found = u,
                            ![s].newAccess = generateAccessToken(u.id, u.email, now),
                            ![s].newTok = generateRefreshToken(u.id, now, nextJti)]
              /\ nextJti' = nextJti + 1
    /\ UNCHANGED <<lib, now, db, conns, nreq, faults, nextRaw, histVars>>

\* User.storeRefreshToken called by signUp (refresh_tokens.user_id REFERENCES
\* users), then the success response
signUp_storeRefreshToken(s) ==
    /\ reqs[s].kind = "signUp" /\ reqs[s].pc = "store"
    /\ \E c \in Conns :
         IF findById(View(c), reqs[s].uid) = {}
         THEN /\ reqs' = [reqs EXCEPT ![s] =
                            [Respond([@ EXCEPT !.why = "not found"], 500,
                                     "Error creating user") EXCEPT !.detail = TRUE]]
              /\ UNCHANGED <<db, conns, issued>>
         ELSE /\ db' = WriteDb(c, InsertRT(reqs[s].uid, reqs[s].newTok, now))
              /\ conns' = WriteConns(c, InsertRT(reqs[s].uid, reqs[s].newTok, now))
              /\ reqs' = [reqs EXCEPT ![s] =
                            [setAuthCookies(Respond(@, 201, "User created successfully"))
                               EXCEPT !.data = userData(reqs[s].found)]]
              /\ issued' = issued \cup {reqs[s].newTok}
    /\ UNCHANGED <<lib, now, nreq, faults, nextJti, nextRaw, mailbox, rotated, revoked,
                   consumed, superseded>>

(* ------------------------- AuthController.signIn ----------------------- *)
\* a response that would tell the client the account does not exist
signIn_userNotFound(r) == Respond([r EXCEPT !.why = "no user"], 404, "User not found")
\* the response when findByEmail returns no user
signIn_noUser(r) == Respond([r EXCEPT !.why = "no user"], 401, "Invalid credentials")
\* the response when comparePassword fails
signIn_wrongPassword(r) ==
    Respond([r EXCEPT !.why = "wrong password"], 401, "Invalid credentials")

signIn(s) ==
    /\ Accept(s)
    /\ nreq' = nreq + 1
    /\ \E email \in {EmailOf(u) : u \in UserIds} \cup {NewEmail, UnknownEmail},
          pw \in Passwords :
         LET r == [Idle EXCEPT !.kind = "signIn", !.pw = pw, !.email = email] IN
         \/ /\ \E c \in Conns :
                 LET found == findByEmail(View(c), email) IN
                 IF found = {}
                 THEN /\ reqs' = Enter(s, signIn_noUser(r))
                      /\ nextJti' = nextJti
                 ELSE LET u == formatUser(CHOOSE u \in found : TRUE) IN
                      IF ~comparePassword(pw, u.password)
                      THEN /\ reqs' = Enter(s, signIn_wrongPassword(r))
                           /\ nextJti' = nextJti
                      ELSE /\ reqs' = Enter(s, [r EXCEPT !.pc = "store", !.uid = u.id,
                                       !.found = u,
                                       !.newAccess = generateAccessToken(u.id, u.email, now),
                                       !.newTok = generateRefreshToken(u.id, now, nextJti)])
                           /\ nextJti' = nextJti + 1
            /\ faults' = faults
         \/ /\ faults < MaxFaults
            /\ faults' = faults + 1
            /\ reqs' = Enter(s, Failed(r, 500, "Error during login"))
            /\ nextJti' = nextJti
    /\ UNCHANGED <<lib, now, db, conns, nextRaw, histVars>>

\* User.storeRefreshToken called by signIn, then the success response
signIn_storeRefreshToken(s) ==
    /\ reqs[s].kind = "signIn" /\ reqs[s].pc = "store"
    /\ \E c \in Conns :
         /\ db' = WriteDb(c, InsertRT(reqs[s].uid, reqs[s].newTok, now))
         /\ conns' = WriteConns(c, InsertRT(reqs[s].uid, reqs[s].newTok, now))
    /\ reqs' = [reqs EXCEPT ![s] = [setAuthCookies(Respond(@, 200, "Login successful"))
                                       EXCEPT !.data = userData(reqs[s].found)]]
    /\ issued' = issued \cup {reqs[s].newTok}
    /\ UNCHANGED <<lib, now, nreq, faults, nextJti, nextRaw, mailbox, rotated, revoked,
                   consumed, superseded>>

\* the token was presented to a signOut that has answered with success
signedOut(tok) ==
    \E t \in Slots : /\ reqs[t].kind = "signOut" /\ reqs[t].pc = "done"
                     /\ reqs[t].status = 200 /\ reqs[t].tok = tok

(* ---------------------- AuthController.refreshToken -------------------- *)
refreshToken(s) ==
    /\ Accept(s)
    /\ nreq' = nreq + 1
    /\ \E tok \in issued \cup {ForgedTok} :
         LET r == [Idle EXCEPT !.kind = "refresh", !.tok = tok, !.uid = tok.uid,
                               !.replay = (tok \in rotated), !.stale = (tok \in revoked),
                               !.why = IF signedOut(tok) THEN "signed out" ELSE ""]
         IN
         IF ~verifyRefreshToken(tok, now)
         THEN \* verifyRefreshToken throws: the catch block answers
              /\ reqs' = Enter(s, [Respond(r, 403, "Invalid refresh token")
                                     EXCEPT !.detail = TRUE])
              /\ UNCHANGED <<faults, nextJti>>
         ELSE \/ /\ \E c \in Conns :
                      LET found == findByRefreshToken(View(c), tok.uid, tok, now) IN
                      IF found = {}
                      THEN /\ reqs' = Enter(s, clearAuthCookies(
                                                Respond(r, 403, "Invalid refresh token")))
                           /\ nextJti' = nextJti
                      ELSE LET u == formatUser(CHOOSE u \in found : TRUE) IN
                           /\ reqs' = Enter(s, [r EXCEPT !.pc = "begin", !.found = u,
                                      !.newAccess = generateAccessToken(u.id, u.email, now),
                                      !.newTok = generateRefreshToken(u.id, now, nextJti)])
                           /\ nextJti' = nextJti + 1
                 /\ faults' = faults
              \/ /\ faults < MaxFaults
                 /\ faults' = faults + 1
                 /\ reqs' = Enter(s, Failed(r, 403, "Invalid refresh token"))
                 /\ nextJti' = nextJti
    /\ UNCHANGED <<lib, now, db, conns, nextRaw, histVars>>

(* ------------------------ AuthController.signOut ----------------------- *)
\* req.user?.userId in signOut: no middleware of the /signout route sets req.user
signOutUserId == 0

signOut(s) ==
    /\ Accept(s)
    /\ nreq' = nreq + 1
    /\ \E jar \in RefreshJars(issued \cup {ForgedTok}) :
         LET tok == jar.refreshToken
             r == [Idle EXCEPT !.kind = "signOut", !.jar = jar, !.tok = tok,
                               !.user = signOutUserId, !.rows = db.rt, !.at = now]
         IN
         IF ~jar.parsed
         THEN \* req.cookies.refreshToken throws: the catch block answers
              /\ reqs' = Enter(s, [Respond(r, 500, "Error during sign out")
                                     EXCEPT !.detail = TRUE])
              /\ UNCHANGED <<db, conns>>
         ELSE IF tok # NoTok /\ signOutUserId # 0
              THEN \E c \in Conns :
                     /\ db' = WriteDb(c, DeleteRT(signOutUserId, tok))
                     /\ conns' = WriteConns(c, DeleteRT(signOutUserId, tok))
                     /\ reqs' = Enter(s, clearAuthCookies(
                            [Respond(r, 200, "Signed out successfully") EXCEPT
                               !.affected = deleteAffected(View(c), signOutUserId, tok)]))
              ELSE /\ reqs' = Enter(s, clearAuthCookies(
                                        Respond(r, 200, "Signed out successfully")))
                   /\ UNCHANGED <<db, conns>>
    /\ UNCHANGED <<lib, now, faults, nextJti, nextRaw, histVars>>

(* --------------------- AuthController.forgotPassword ------------------- *)
forgotPassword(s) ==
    /\ Accept(s)
    /\ nreq' = nreq + 1
    /\ \E email \in {EmailOf(u) : u \in UserIds} \cup {UnknownEmail} :
         LET r == [Idle EXCEPT !.kind = "forgot"] IN
         \/ /\ \E c \in Conns :
                 LET found == findByEmail(View(c), email) IN
                 IF found = {}
                 THEN /\ reqs' = Enter(s, Respond(r, 200,
                                   "If the email exists, a reset link will be sent"))
                      /\ nextRaw' = nextRaw
                 ELSE LET u == CHOOSE u \in found : TRUE IN
                      /\ reqs' = Enter(s, [r EXCEPT !.pc = "begin", !.uid = u.id,
                                  !.raw = nextRaw,
                                  !.seen = {m \in mailbox : m.uid = u.id}])
                      /\ nextRaw' = nextRaw + 1
            /\ faults' = faults
         \/ /\ faults < MaxFaults
            /\ faults' = faults + 1
            /\ reqs' = Enter(s, Failed(r, 500, "Error processing request"))
            /\ nextRaw' = nextRaw
    /\ UNCHANGED <<lib, now, db, conns, nextJti, histVars>>

\* the raw token handed to the store as it is
hashedToken_raw(r) == [plain |-> r.raw]
\* hashedToken of forgotPassword: what the handler passes to
\* storePasswordResetToken
hashedToken(r) == hashResetToken(r.raw)

\* EmailUtils.sendPasswordResetEmail, then the success response
sendPasswordResetEmail(s) ==
    /\ reqs[s].kind = "forgot" /\ reqs[s].pc = "email"
    /\ reqs' = [reqs EXCEPT ![s] = Respond(@, 200,
                                   "If the email exists, a reset link will be sent")]
    /\ mailbox' = mailbox \cup {[uid |-> reqs[s].uid, raw |-> reqs[s].raw,
                                 exp |-> reqs[s].exp]}
    /\ superseded' = superseded \cup reqs[s].seen
    /\ UNCHANGED <<lib, now, db, conns, nreq, faults, nextJti, nextRaw, issued, rotated,
                   revoked, consumed>>

(* ------------------- User.findValidPasswordResetToken ------------------ *)
\* a lookup that would mark the rows of the user used
lookupResetToken_burning(s) ==
    /\ Accept(s)
    /\ nreq' = nreq + 1
    /\ \E uid \in UserIds, raw \in {m.raw : m \in mailbox} \cup {GuessedRaw}, c \in Conns :
         /\ reqs' = Enter(s, [Idle EXCEPT !.kind = "lookup", !.pc = "done", !.uid = uid,
                 !.raw = raw, !.at = now,
                 !.user = IF findValidPasswordResetToken(View(c), uid, raw, now) = {}
                          THEN 0 ELSE uid])
         /\ db' = WriteDb(c, InvalidatePR(uid))
         /\ conns' = WriteConns(c, InvalidatePR(uid))
    /\ UNCHANGED <<lib, now, faults, nextJti, nextRaw, histVars>>

\* a caller other than resetPassword (a page that renders the reset form)
\* looks a reset link up: the user it gets, or null
lookupResetToken(s) ==
    /\ Accept(s)
    /\ nreq' = nreq + 1
    /\ \E uid \in UserIds, raw \in {m.raw : m \in mailbox} \cup {GuessedRaw} :
         LET r == [Idle EXCEPT !.kind = "lookup", !.pc = "done", !.uid = uid,
                               !.raw = raw, !.at = now]
         IN
         \/ /\ \E c \in Conns :
                 reqs' = Enter(s, [r EXCEPT !.user =
                     IF findValidPasswordResetToken(View(c), uid, raw, now) = {}
                     THEN 0 ELSE uid])
            /\ faults' = faults
         \/ /\ faults < MaxFaults
            /\ faults' = faults + 1
            /\ reqs' = Enter(s, Failed(r, 0, "Error finding valid password reset token"))
    /\ UNCHANGED <<lib, now, db, conns, nextJti, nextRaw, histVars>>

(* --------------------- AuthController.resetPassword -------------------- *)
\* what the presented reset link is when the request arrives
Classify(uid, raw) ==
    LET mine == {m \in mailbox : m.uid = uid /\ m.raw = raw} IN
    IF mine = {} THEN "never"
    ELSE IF \E m \in mine : m \in consumed THEN "consumed"
    ELSE IF \E m \in mine : m.exp <= now THEN "expired"
    ELSE IF \E m \in mine : m \in superseded THEN "superseded"
    ELSE "valid"

resetPassword(s) ==
    /\ Accept(s)
    /\ nreq' = nreq + 1
    /\ \E uid \in {u.id : u \in db.users},
          raw \in {m.raw : m \in mailbox} \cup {GuessedRaw}, pw \in NewPasswords :
         LET r == [Idle EXCEPT !.kind = "reset", !.uid = uid, !.raw = raw, !.pw = pw,
                               !.why = Classify(uid, raw)]
         IN
         \/ /\ \E c \in Conns :
                 IF findValidPasswordResetToken(View(c), uid, raw, now) = {}
                 THEN reqs' = Enter(s, Respond(r, 400, "Invalid or expired reset token"))
                 ELSE reqs' = Enter(s, [r EXCEPT !.pc = "begin"])
            /\ faults' = faults
         \/ /\ faults < MaxFaults
            /\ faults' = faults + 1
            /\ reqs' = Enter(s, Failed(r, 500, "Error resetting password"))
    /\ UNCHANGED <<lib, now, db, conns, nextJti, nextRaw, histVars>>

\* the controller's own User.clearAllRefreshTokens, then the success response
clearAllRefreshTokens(s) ==
    /\ reqs[s].kind = "reset" /\ reqs[s].pc = "clear2"
    /\ \E c \in Conns :
         /\ db' = WriteDb(c, DeleteAllRT(reqs[s].uid))
         /\ conns' = WriteConns(c, DeleteAllRT(reqs[s].uid))
    /\ reqs' = [reqs EXCEPT ![s] = Respond(@, 200, "Password reset successfully")]
    /\ revoked' = revoked \cup {t \in issued : t.uid = reqs[s].uid}
    /\ consumed' = consumed \cup {m \in mailbox : m.uid = reqs[s].uid /\ m.raw = reqs[s].raw}
    /\ UNCHANGED <<lib, now, nreq, faults, nextJti, nextRaw, issued, mailbox, rotated,
                   superseded>>


(* --------------------------- User.updateProfile ------------------------ *)
\* keys an update payload may carry
PayloadKeys == {"name", "password", "Password"}
\* const { password, ...safeUpdateData } = updateData
safeUpdateData(keys) == keys \ {"password"}
\* the column a key of the SET clause names: column names are case-insensitive
Column(key) == IF key = "Password" THEN "password" ELSE key
\* the payload's value, written as it came (no hashPassword on this path)
PayloadValue == [bcrypt |-> "as sent"]
\* UPDATE users SET key = ?, ..., updated_at = NOW() WHERE id = ? AND is_active = 1
UpdateProfile(u, keys) ==
    IF "password" \in {Column(k) : k \in keys}
    THEN UpdatePw(u, PayloadValue)
    ELSE [NoOp EXCEPT !.type = "setProfile", !.user = u]

\* User.updateProfile: the payload check, the UPDATE and its affectedRows test
updateProfile(s) ==
    /\ Accept(s)
    /\ nreq' = nreq + 1
    /\ \E uid \in {u.id : u \in db.users}, keys \in SUBSET PayloadKeys :
         LET r == [Idle EXCEPT !.kind = "profile", !.uid = uid, !.keys = keys] IN
         \/ /\ safeUpdateData(keys) = {}
            /\ reqs' = Enter(s, [Respond([r EXCEPT !.why = "no fields"], 500,
                                         "Error updating profile") EXCEPT !.detail = TRUE])
            /\ UNCHANGED <<db, conns, faults>>
         \/ /\ safeUpdateData(keys) # {}
            /\ \E c \in Conns :
                 /\ db' = WriteDb(c, UpdateProfile(uid, safeUpdateData(keys)))
                 /\ conns' = WriteConns(c, UpdateProfile(uid, safeUpdateData(keys)))
                 /\ reqs' = Enter(s,
                       IF updateAffected(View(c), uid) = 0
                       THEN [Respond([r EXCEPT !.why = "not found", !.affected = 0], 500,
                                     "Error updating profile") EXCEPT !.detail = TRUE]
                       ELSE [r EXCEPT !.pc = "reread",
                                      !.affected = updateAffected(View(c), uid)])
            /\ faults' = faults
         \/ /\ safeUpdateData(keys) # {}
            /\ faults < MaxFaults
            /\ faults' = faults + 1
            /\ reqs' = Enter(s, Failed(r, 500, "Error updating profile"))
            /\ UNCHANGED <<db, conns>>
    /\ UNCHANGED <<lib, now, nextJti, nextRaw, histVars>>

\* User.updateProfile: return await this.findById(userId)
updateProfile_findById(s) ==
    /\ reqs[s].kind = "profile" /\ reqs[s].pc = "reread"
    /\ \E c \in Conns :
         reqs' = [reqs EXCEPT ![s] =
                    IF findById(View(c), @.uid) = {}
                    THEN Respond(@, 200, "")
                    ELSE [Respond(@, 200, "") EXCEPT
                            !.found = formatUser(CHOOSE u \in findById(View(c), reqs[s].uid)
                                                   : TRUE)]]
    /\ UNCHANGED <<lib, now, db, conns, nreq, faults, nextJti, nextRaw, histVars>>

(* ------------------- User: transactions and statements ----------------- *)
ErrorStatus(kind) == IF kind = "refresh" THEN 403 ELSE 500
ErrorMessage(kind) ==
    CASE kind = "refresh" -> "Invalid refresh token"
      [] kind = "signIn" -> "Error during login"
      [] kind = "forgot" -> "Error processing request"
      [] kind = "signUp" -> "Error creating user"
      [] kind = "profile" -> "Error updating profile"
      [] OTHER -> "Error resetting password"

FirstStatement(kind) ==
    CASE kind = "refresh" -> "delete"
      [] kind = "forgot" -> "invalidate"
      [] kind = "signUp" -> "insertUser"
      [] OTHER -> "update"

\* User._beginTransaction: START TRANSACTION through the pool
beginTransaction(s) ==
    /\ reqs[s].pc = "begin"
    /\ \E c \in Conns :
         /\ db' = BeginDb(c)
         /\ conns' = BeginConns(c)
    /\ reqs' = [reqs EXCEPT ![s].pc = FirstStatement(reqs[s].kind)]
    /\ UNCHANGED <<lib, now, nreq, faults, nextJti, nextRaw, histVars>>

\* User.updateRefreshToken: DELETE of the old row
updateRefreshToken_delete(s) ==
    /\ reqs[s].kind = "refresh" /\ reqs[s].pc = "delete"
    /\ \E c \in Conns :
         /\ db' = WriteDb(c, DeleteRT(reqs[s].uid, reqs[s].tok))
         /\ conns' = WriteConns(c, DeleteRT(reqs[s].uid, reqs[s].tok))
         /\ reqs' = [reqs EXCEPT ![s].pc = "insert",
                       ![s].affected = deleteAffected(View(c), reqs[s].uid, reqs[s].tok)]
    /\ UNCHANGED <<lib, now, nreq, faults, nextJti, nextRaw, histVars>>

\* User.updateRefreshToken: storeRefreshToken of the new row
updateRefreshToken_insert(s) ==
    /\ reqs[s].kind = "refresh" /\ reqs[s].pc = "insert"
    /\ \E c \in Conns :
         /\ db' = WriteDb(c, InsertRT(reqs[s].uid, reqs[s].newTok, now))
         /\ conns' = WriteConns(c, InsertRT(reqs[s].uid, reqs[s].newTok, now))
    /\ reqs' = [reqs EXCEPT ![s].pc = "commit"]
    /\ UNCHANGED <<lib, now, nreq, faults, nextJti, nextRaw, histVars>>

\* User.storePasswordResetToken: UPDATE ... SET is_valid = 0
storePasswordResetToken_invalidate(s) ==
    /\ reqs[s].kind = "forgot" /\ reqs[s].pc = "invalidate"
    /\ \E c \in Conns :
         /\ db' = WriteDb(c, InvalidatePR(reqs[s].uid))
         /\ conns' = WriteConns(c, InvalidatePR(reqs[s].uid))
    /\ reqs' = [reqs EXCEPT ![s].pc = "insert"]
    /\ UNCHANGED <<lib, now, nreq, faults, nextJti, nextRaw, histVars>>

\* User.storePasswordResetToken: INSERT of the new digest
storePasswordResetToken_insert(s) ==
    /\ reqs[s].kind = "forgot" /\ reqs[s].pc = "insert"
    /\ \E c \in Conns :
         /\ db' = WriteDb(c, InsertPR(reqs[s].uid, hashedToken(reqs[s]), now))
         /\ conns' = WriteConns(c, InsertPR(reqs[s].uid, hashedToken(reqs[s]), now))
    /\ reqs' = [reqs EXCEPT ![s].pc = "commit", ![s].exp = now + ResetTTL]
    /\ UNCHANGED <<lib, now, nreq, faults, nextJti, nextRaw, histVars>>

\* User.updatePassword: UPDATE of the digest, and the affectedRows check
updatePassword_update(s) ==
    /\ reqs[s].kind = "reset" /\ reqs[s].pc = "update"
    /\ \E c \in Conns :
         /\ db' = WriteDb(c, UpdatePw(reqs[s].uid, hashPassword(reqs[s].pw)))
         /\ conns' = WriteConns(c, UpdatePw(reqs[s].uid, hashPassword(reqs[s].pw)))
         /\ reqs' = [reqs EXCEPT
                       ![s].affected = updateAffected(View(c), reqs[s].uid),
                       ![s].pc = IF updateAffected(View(c), reqs[s].uid) = 0
                                 THEN "rollback" ELSE "clear"]
    /\ UNCHANGED <<lib, now, nreq, faults, nextJti, nextRaw, histVars>>

\* User.updatePassword: clearAllRefreshTokens
updatePassword_clear(s) ==
    /\ reqs[s].kind = "reset" /\ reqs[s].pc = "clear"
    /\ \E c \in Conns :
         /\ db' = WriteDb(c, DeleteAllRT(reqs[s].uid))
         /\ conns' = WriteConns(c, DeleteAllRT(reqs[s].uid))
    /\ reqs' = [reqs EXCEPT ![s].pc = "invalidate"]
    /\ UNCHANGED <<lib, now, nreq, faults, nextJti, nextRaw, histVars>>

\* User.updatePassword: UPDATE ... SET is_valid = 0
updatePassword_invalidate(s) ==
    /\ reqs[s].kind = "reset" /\ reqs[s].pc = "invalidate"
    /\ \E c \in Conns :
         /\ db' = WriteDb(c, InvalidatePR(reqs[s].uid))
         /\ conns' = WriteConns(c, InvalidatePR(reqs[s].uid))
    /\ reqs' = [reqs EXCEPT ![s].pc = "commit"]
    /\ UNCHANGED <<lib, now, nreq, faults, nextJti, nextRaw, histVars>>

\* User._commitTransaction: COMMIT through the pool, then what the caller does next
commitTransaction(s) ==
    /\ reqs[s].pc = "commit"
    /\ \E c \in Conns :
         /\ db' = CommitDb(c)
         /\ conns' = CommitConns(c)
    /\ reqs' = [reqs EXCEPT ![s] =
                  CASE @.kind = "refresh" ->
                            setAuthCookies(Respond(@, 200, "Token refreshed successfully"))
                    [] @.kind = "forgot" -> [@ EXCEPT !.pc = "email"]
                    [] @.kind = "signUp" -> [@ EXCEPT !.pc = "findById"]
                    [] OTHER -> [@ EXCEPT !.pc = "clear2"]]
    /\ issued' = IF reqs[s].kind = "refresh" THEN issued \cup {reqs[s].newTok} ELSE issued
    /\ rotated' = IF reqs[s].kind = "refresh" THEN rotated \cup {reqs[s].tok} ELSE rotated
    /\ UNCHANGED <<lib, now, nreq, faults, nextJti, nextRaw, mailbox, revoked, consumed,
                   superseded>>

\* User._rollbackTransaction: ROLLBACK through the pool, then the error is rethrown
rollbackTransaction(s) ==
    /\ reqs[s].pc = "rollback"
    /\ \E c \in Conns : conns' = RollbackConns(c)
    /\ reqs' = [reqs EXCEPT ![s] =
                  [Failed(@, ErrorStatus(@.kind), ErrorMessage(@.kind))
                     EXCEPT !.rolled = TRUE]]
    /\ UNCHANGED <<lib, now, db, nreq, faults, nextJti, nextRaw, histVars>>

\* an awaited store or mail call rejects: the statement has no effect and the
\* error takes the catch path of the operation it is in
StoreFault(s) ==
    /\ faults < MaxFaults
    /\ faults' = faults + 1
    /\ reqs[s].pc \notin {"idle", "done"}
    /\ reqs' = [reqs EXCEPT ![s] =
                  IF @.pc \in {"delete", "insert", "invalidate", "update", "clear", "commit",
                              "insertUser"}
                  THEN [@ EXCEPT !.pc = "rollback", !.faulted = TRUE]
                  ELSE Failed(@, ErrorStatus(@.kind), ErrorMessage(@.kind))]
    /\ UNCHANGED <<lib, now, db, conns, nreq, nextJti, nextRaw, histVars>>

Tick ==
    /\ now < MaxTime
    /\ now' = now + 1
    /\ UNCHANGED <<lib, db, conns, reqs, nreq, faults, nextJti, nextRaw, histVars>>

\* users.is_active is cleared from outside the package (no method of the User
\* model writes it after the INSERT): an operator's autocommitted UPDATE
deactivate(u) ==
    /\ \E row \in db.users : row.id = u /\ row.is_active
    /\ db' = [db EXCEPT !.users = {IF row.id = u THEN [row EXCEPT !.is_active = FALSE]
                                                ELSE row : row \in @}]
    /\ UNCHANGED <<lib, now, conns, reqs, nreq, faults, nextJti, nextRaw, histVars>>

ProfileSteps(s) ==
    \/ updateProfile(s) \/ updateProfile_findById(s)

GuardSteps(s) ==
    \/ getCurrentUser(s) \/ optionalRoute(s)

SignUpSteps(s) ==
    \/ signUp(s) \/ create(s) \/ create_insert(s) \/ create_findById(s)
    \/ signUp_storeRefreshToken(s)

SessionSteps(s) ==
    \/ signIn(s) \/ signIn_storeRefreshToken(s)

RefreshSteps(s) ==
    \/ refreshToken(s)
    \/ updateRefreshToken_delete(s) \/ updateRefreshToken_insert(s)

ForgotSteps(s) ==
    \/ forgotPassword(s) \/ sendPasswordResetEmail(s)
    \/ storePasswordResetToken_invalidate(s) \/ storePasswordResetToken_insert(s)

ResetSteps(s) ==
    \/ forgotPassword(s) \/ sendPasswordResetEmail(s)
    \/ storePasswordResetToken_invalidate(s) \/ storePasswordResetToken_insert(s)
    \/ resetPassword(s) \/ clearAllRefreshTokens(s)
    \/ updatePassword_update(s) \/ updatePassword_clear(s)
    \/ updatePassword_invalidate(s)

TxSteps(s) ==
    \/ beginTransaction(s) \/ commitTransaction(s) \/ rollbackTransaction(s)
    \/ StoreFault(s)

Next ==
    \/ \E s \in Slots : GuardSteps(s) \/ signOut(s) \/ lookupResetToken(s)
                          \/ ProfileSteps(s)
                          \/ SignUpSteps(s) \/ SessionSteps(s)
                          \/ RefreshSteps(s) \/ ResetSteps(s) \/ TxSteps(s)
    \/ \E u \in UserIds : deactivate(u)
    \/ Tick
    \/ LibSteps

Spec == Init /\ [][Next]_vars

\* guarded requests, with the refreshes that rotate the sessions meanwhile
NextGuard == \E s \in Slots : GuardSteps(s) \/ RefreshSteps(s) \/ TxSteps(s)
SpecGuard == Init /\ [][NextGuard]_vars

\* sign-outs, with the refreshes that present the tokens afterwards
NextSignOut == \E s \in Slots : signOut(s) \/ RefreshSteps(s) \/ TxSteps(s)
SpecSignOut == Init /\ [][NextSignOut]_vars

\* accounts in use: sign-up, sign-in and GET /me
NextAccount ==
    \E s \in Slots : SignUpSteps(s) \/ SessionSteps(s) \/ getCurrentUser(s) \/ TxSteps(s)
SpecAccount == Init /\ [][NextAccount]_vars

\* sign-in, refresh and GET /me for users an operator deactivates meanwhile;
\* the store may fail a handler's first call only
NextActive ==
    \/ \E s \in Slots : SessionSteps(s) \/ RefreshSteps(s) \/ getCurrentUser(s)
                          \/ beginTransaction(s) \/ commitTransaction(s)
    \/ \E u \in UserIds : deactivate(u)
SpecActive == Init /\ [][NextActive]_vars

\* refreshes of a session whose row expires before its token does, with the
\* clock and an operator who deactivates the user; the store may fail a
\* handler's first call only
NextAged ==
    \/ \E s \in Slots : RefreshSteps(s) \/ beginTransaction(s) \/ commitTransaction(s)
    \/ \E u \in UserIds : deactivate(u)
    \/ Tick
SpecAged == InitAged /\ [][NextAged]_vars

\* access tokens issued by sign-in and refresh and presented to GET /me, with
\* the clock that expires them; the store may fail a handler's first call only
NextRoundTrip ==
    \/ \E s \in Slots : SessionSteps(s) \/ RefreshSteps(s) \/ getCurrentUser(s)
                          \/ beginTransaction(s) \/ commitTransaction(s)
    \/ Tick
SpecRoundTrip == Init /\ [][NextRoundTrip]_vars

\* every operation that issues a refresh token: sign-up, sign-in and
\* rotation; the store may fail a handler's first call only
NextTokens ==
    \E s \in Slots : SignUpSteps(s) \/ SessionSteps(s) \/ RefreshSteps(s)
                       \/ beginTransaction(s) \/ commitTransaction(s)
                       \/ rollbackTransaction(s)
SpecTokens == Init /\ [][NextTokens]_vars

\* sign-up traffic only
NextSignUp == \E s \in Slots : SignUpSteps(s) \/ TxSteps(s)
SpecSignUp == Init /\ [][NextSignUp]_vars

\* sign-in traffic only
NextSignIn == \E s \in Slots : SessionSteps(s) \/ StoreFault(s)
SpecSignIn == Init /\ [][NextSignIn]_vars

\* sign-in and refresh traffic only
NextSession == \E s \in Slots : SessionSteps(s) \/ RefreshSteps(s) \/ TxSteps(s)
SpecSession == Init /\ [][NextSession]_vars

\* refresh traffic only
NextRefresh == \E s \in Slots : RefreshSteps(s) \/ TxSteps(s)
SpecRefresh == Init /\ [][NextRefresh]_vars

\* password-reset traffic, with the clock that expires reset links
NextReset ==
    \/ \E s \in Slots : ResetSteps(s) \/ TxSteps(s)
    \/ Tick
SpecReset == Init /\ [][NextReset]_vars

\* reset links being issued and looked up, with the clock that expires them
NextLookup ==
    \/ \E s \in Slots : lookupResetToken(s) \/ ForgotSteps(s) \/ TxSteps(s)
    \/ Tick
SpecLookup == Init /\ [][NextLookup]_vars

\* password-reset traffic where a second account exists
NextBound == \E s \in Slots : ResetSteps(s) \/ TxSteps(s)
SpecBound == InitPair /\ [][NextBound]_vars

\* refreshes, sign-outs and password resets where users hold several sessions
NextDevices ==
    \E s \in Slots :
        \/ refreshToken(s) \/ signOut(s) \/ resetPassword(s)
        \/ updateRefreshToken_delete(s) \/ updateRefreshToken_insert(s)
        \/ clearAllRefreshTokens(s)
        \/ updatePassword_update(s) \/ updatePassword_clear(s)
        \/ updatePassword_invalidate(s)
        \/ TxSteps(s)
SpecDevices == InitDevices /\ [][NextDevices]_vars

\* the life of the instance from its construction on
InitLib ==
    /\ now = 0
    /\ db = InitDb
    /\ conns = [c \in Conns |-> [inTx |-> FALSE, log |-> <<>>]]
    /\ reqs = [s \in Slots |-> Idle]
    /\ nreq = 0
    /\ faults = 0
    /\ nextJti = NumUsers + 1
    /\ nextRaw = 1
    /\ issued = {generateRefreshToken(u, 0, u) : u \in UserIds}
    /\ mailbox = {}
    /\ rotated = {}
    /\ revoked = {}
    /\ consumed = {}
    /\ superseded = {}
    /\ lib = NoInstance
NextLib == LibSteps
SpecLib == InitLib /\ [][NextLib]_vars

\* profile updates, with the sign-ins that check the stored digest
NextProfile == \E s \in Slots : ProfileSteps(s) \/ SessionSteps(s) \/ StoreFault(s)
SpecProfile == Init /\ [][NextProfile]_vars

\* password-reset traffic, with refreshes of the sessions it revokes
NextRevoke == \E s \in Slots : ResetSteps(s) \/ RefreshSteps(s) \/ TxSteps(s)
SpecRevoke == Init /\ [][NextRevoke]_vars


(* ------------------------- properties: rotation ------------------------ *)
Done(s, kind) == reqs[s].kind = kind /\ reqs[s].pc = "done"
HasRow(tok) == \E r \in db.rt : r.user_id = tok.uid /\ r.token = tok

\* C1: a refresh that presents a token which an earlier, completed refresh
\* has already rotated is answered 403 'Invalid refresh token' and issues no pair.
C1_ReplayIsRejected ==
    \A s \in Slots :
        (Done(s, "refresh") /\ reqs[s].replay)
            => (reqs[s].status = 403 /\ reqs[s].message = "Invalid refresh token"
                /\ reqs[s].newTok \notin issued)

\* C2: of two refresh requests racing on the same token (neither began after
\* the other had completed) at most one is answered with success.
C2_RaceHasOneWinner ==
    \A s, t \in Slots :
        (s # t /\ Done(s, "refresh") /\ Done(t, "refresh")
         /\ reqs[s].tok = reqs[t].tok /\ ~reqs[s].replay /\ ~reqs[t].replay)
            => ~(reqs[s].status = 200 /\ reqs[t].status = 200)

\* C3: when the DELETE of updateRefreshToken matches no row (userId, oldToken),
\* the operation goes on neither to insert the new row nor to report success.
C3_RotationAbortsWithoutOldRow ==
    \A s \in Slots :
        (reqs[s].kind = "refresh" /\ reqs[s].affected = 0)
            => (reqs[s].pc # "commit" /\ reqs[s].status # 200
                /\ ~HasRow(reqs[s].newTok))

\* C4: while the only request ever made is one rotation, the committed rows
\* hold the old token or the new one and never both or neither; the rotation
\* reports success exactly when the new row is there, and after a rollback the
\* old row is back.
C4_RotationIsAtomic ==
    (nreq = 1 /\ reqs[1].kind = "refresh" /\ reqs[1].newTok # NoTok)
        => /\ HasRow(reqs[1].tok) # HasRow(reqs[1].newTok)
           /\ reqs[1].pc = "done" => (reqs[1].status = 200 <=> HasRow(reqs[1].newTok))
           /\ reqs[1].rolled => HasRow(reqs[1].tok)

(* --------------------- properties: password reset ---------------------- *)
\* C5: a refresh that presents a token issued to a user before that user's
\* successful resetPassword is answered 403.
C5_ResetRevokesSessions ==
    \A s \in Slots :
        (Done(s, "refresh") /\ reqs[s].stale) => reqs[s].status = 403

\* C6: a resetPassword whose link was never issued for the user, has expired
\* or was used by an earlier successful resetPassword is answered 400 'Invalid or
\* expired reset token' without running the password UPDATE (store faults aside).
C6_BadResetTokenIsRejected ==
    \A s \in Slots :
        (Done(s, "reset") /\ reqs[s].why \in {"never", "expired", "consumed"}
         /\ ~reqs[s].faulted)
            => (reqs[s].status = 400 /\ reqs[s].affected = -1
                /\ reqs[s].message = "Invalid or expired reset token")

\* C7: of two resetPassword requests presenting the same link of the same user
\* at most one is answered with success.
C7_ResetTokenUsedOnce ==
    \A s, t \in Slots :
        (s # t /\ Done(s, "reset") /\ Done(t, "reset")
         /\ reqs[s].uid = reqs[t].uid /\ reqs[s].raw = reqs[t].raw)
            => ~(reqs[s].status = 200 /\ reqs[t].status = 200)

\* C8: the committed rows hold at most one is_valid reset row per user.
ValidLinks(u) == {r \in db.pr : r.user_id = u /\ r.is_valid}
C8_OneValidResetRow ==
    \A u \in UserIds : Cardinality(ValidLinks(u)) <= 1

\* C9: once a later forgotPassword of the same user has completed, a
\* resetPassword with the older link is answered 400, and one with the newest
\* link, unexpired and unused, while no other request is in flight, succeeds
\* (store faults aside).
C9_OnlyNewestLinkUsable ==
    \A s \in Slots :
        (Done(s, "reset") /\ ~reqs[s].faulted)
            => /\ reqs[s].why = "superseded" => reqs[s].status = 400
               /\ (/\ reqs[s].why = "valid"
                   /\ \E m \in superseded : m.uid = reqs[s].uid
                   /\ \A t \in Slots \ {s} : reqs[t].kind = "idle")
                      => reqs[s].status = 200

\* C10: while one resetPassword follows one forgotPassword and nothing else runs,
\* the committed rows show the new digest exactly when they show the user's
\* sessions gone, and then no valid reset row either; when updatePassword has
\* returned all three are in effect, and after a rollback none is.
PwIs(u, p) == \E usr \in db.users : usr.id = u /\ usr.password = hashPassword(p)
NoSessions(u) == \A r \in db.rt : r.user_id # u
C10_UpdatePasswordIsAtomic ==
    (nreq = 2 /\ reqs[2].kind = "idle" /\ reqs[1].kind = "reset"
     /\ reqs[1].status # 400)
        => LET u == reqs[1].uid IN
           /\ PwIs(u, reqs[1].pw) <=> NoSessions(u)
           /\ PwIs(u, reqs[1].pw) => ValidLinks(u) = {}
           /\ reqs[1].pc = "clear2" => PwIs(u, reqs[1].pw)
           /\ reqs[1].rolled => ~PwIs(u, reqs[1].pw)

\* C11: while forgotPassword requests are the only ones that have written, the
\* committed reset rows of a user are never all invalid (the prior rows
\* invalidated without the new row in place), and after a rollback the row of
\* the request that rolled back is not there.
ResetRows(u) == {r \in db.pr : r.user_id = u}
C11_IssueIsAtomic ==
    (nreq <= 2 /\ \A s \in Slots : reqs[s].kind \in {"idle", "forgot"})
        => /\ \A u \in UserIds : ResetRows(u) # {} => ValidLinks(u) # {}
           /\ \A s \in Slots :
                (reqs[s].kind = "forgot" /\ reqs[s].rolled)
                    => \A r \in db.pr : r.token # hashResetToken(reqs[s].raw)

(* ------------------------- properties: sign-up ------------------------- *)
\* C12: a signUp that meets its email already stored, in either of its two
\* lookups or at the INSERT, is answered 400 'User already exists with this
\* email'; of two signUps with one email at most one is answered 201, and the
\* committed rows hold at most one user per email.
C12_DuplicateSignUp ==
    /\ \A s \in Slots :
          (Done(s, "signUp") /\ reqs[s].why = "duplicate")
              => (reqs[s].status = 400
                  /\ reqs[s].message = "User already exists with this email")
    /\ \A s, t \in Slots :
          (s # t /\ Done(s, "signUp") /\ Done(t, "signUp")
           /\ reqs[s].email = reqs[t].email)
              => ~(reqs[s].status = 201 /\ reqs[t].status = 201)
    /\ \A u, v \in db.users : u.email = v.email => u = v

(* ------------------------- properties: sign-in ------------------------- *)
\* what the client sees of a finished request
Response(s) == [status |-> reqs[s].status, message |-> reqs[s].message,
                detail |-> reqs[s].detail, cookies |-> reqs[s].cookies]
NoSuchUser(s) == findByEmail(db, reqs[s].email) = {}
WrongPassword(s) ==
    \E u \in findByEmail(db, reqs[s].email) : ~comparePassword(reqs[s].pw, u.password)

\* C13: a signIn whose email matches no active user and a signIn whose email
\* matches a user but whose password is wrong get the same response, status 401
\* with message 'Invalid credentials', no error detail, no cookie and no token.
C13_SignInErrorsIdentical ==
    \A s \in Slots :
        (Done(s, "signIn") /\ ~reqs[s].faulted /\ (NoSuchUser(s) \/ WrongPassword(s)))
            => /\ Response(s) = [status |-> 401, message |-> "Invalid credentials",
                                 detail |-> FALSE, cookies |-> "none"]
               /\ reqs[s].newTok = NoTok
C13_Witness ==
    \E s, t \in Slots :
        /\ Done(s, "signIn") /\ ~reqs[s].faulted /\ NoSuchUser(s)
        /\ Done(t, "signIn") /\ ~reqs[t].faulted /\ WrongPassword(t)
        /\ Response(s) = Response(t)

(* ---------------------- properties: forgot password -------------------- *)
\* C14: once findByEmail has answered, a forgotPassword gets the same response
\* whether or not the email matched a user and whatever became of the store
\* write and of the email send: status 200 with the generic message.
C14_ForgotResponseIdentical ==
    \A s \in Slots :
        (Done(s, "forgot") /\ (reqs[s].uid # 0 \/ ~reqs[s].faulted))
            => Response(s) = [status |-> 200,
                              message |-> "If the email exists, a reset link will be sent",
                              detail |-> FALSE, cookies |-> "none"]

(* ------------------------------ the guards ------------------------------ *)
Found(s) == findToken(reqs[s].hdr, reqs[s].jar)
Verified(s) == ~falsy(Found(s)) /\ verifyAccessToken(Found(s), reqs[s].at)

\* C15: authenticateToken answers 401 'Access token required' when neither the
\* Authorization header nor the accessToken cookie yields a token, and 403
\* 'Invalid or expired token' when the token it found fails verification; in
\* both cases the handler is not invoked, and the handler runs, with req.user
\* set from the token, exactly when verification succeeds.
C15_GuardOutcomes ==
    \A s \in Slots : Done(s, "me") =>
        /\ falsy(Found(s)) =>
              /\ reqs[s].status = 401
              /\ reqs[s].message = "Access token required"
              /\ reqs[s].next = 0 /\ reqs[s].user = 0
        /\ (~falsy(Found(s)) /\ ~Verified(s)) =>
              /\ reqs[s].status = 403
              /\ reqs[s].message = "Invalid or expired token"
              /\ reqs[s].next = 0 /\ reqs[s].user = 0
        /\ reqs[s].next = 1 <=> Verified(s)
        /\ reqs[s].next = 1 => reqs[s].user = Found(s).uid /\ reqs[s].user # 0
        /\ reqs[s].next \in {0, 1}

C15_Witness ==
    \E s, t \in Slots :
        /\ Done(s, "me") /\ falsy(Found(s)) /\ reqs[s].status = 401
        /\ Done(t, "me") /\ ~falsy(Found(t)) /\ ~Verified(t) /\ reqs[t].status = 403

\* C16: optionalAuth never fails a request: whatever the request carries, it
\* calls next exactly once and sends no response, and req.user is set if and
\* only if a token was found and verified.
C16_OptionalNeverFails ==
    \A s \in Slots : Done(s, "optional") =>
        /\ reqs[s].next = 1
        /\ reqs[s].status = 0 /\ reqs[s].message = ""
        /\ reqs[s].user # 0 <=> Verified(s)
        /\ Verified(s) => reqs[s].user = Found(s).uid

C16_Witness ==
    \E s, t \in Slots :
        /\ Done(s, "optional") /\ ~falsy(Found(s)) /\ ~Verified(s)
        /\ reqs[s].next = 1 /\ reqs[s].user = 0
        /\ Done(t, "optional") /\ Verified(t) /\ reqs[t].user # 0

(* ------------------------------- sign-out ------------------------------- *)
RowAt(s) == \E r \in reqs[s].rows : r.user_id = reqs[s].tok.uid /\ r.token = reqs[s].tok

\* C17: once a signOut that presented a live refresh token has answered, the
\* row of that token is gone from the store, and a refresh that presents the
\* token afterwards is answered 403 'Invalid refresh token'.
C17_SignOutRevokes ==
    /\ \A s \in Slots :
          (Done(s, "signOut") /\ reqs[s].tok # NoTok /\ RowAt(s)) => ~HasRow(reqs[s].tok)
    /\ \A s \in Slots :
          (Done(s, "refresh") /\ reqs[s].why = "signed out")
              => reqs[s].status = 403 /\ reqs[s].message = "Invalid refresh token"

\* C18: a signOut that presents no refresh token (no cookies at all, or no
\* refreshToken cookie), or a token that has no row, is answered with success
\* and deletes nothing; two such signOuts of the same request get the same
\* response.
C18_SignOutIdempotent ==
    /\ \A s \in Slots :
          (Done(s, "signOut") /\ (reqs[s].tok = NoTok \/ ~RowAt(s)))
              => /\ reqs[s].status = 200
                 /\ reqs[s].message = "Signed out successfully"
                 /\ reqs[s].affected \in {-1, 0}
    /\ \A s, t \in Slots :
          (Done(s, "signOut") /\ Done(t, "signOut") /\ reqs[s].jar = reqs[t].jar)
              => Response(s) = Response(t)

\* C19: a refresh that fails because of the token it presents (invalid, stale,
\* reused or without a row) clears the accessToken and refreshToken cookies.
C19_FailedRefreshClearsCookies ==
    \A s \in Slots :
        (Done(s, "refresh") /\ reqs[s].status # 200 /\ ~reqs[s].faulted)
            => reqs[s].cookies = "cleared"

(* ------------------- the guard and the refresh rows -------------------- *)
\* what authenticateToken did with the request: the response it sent, or the
\* identity it handed to the handler
GuardOutcome(s) ==
    IF reqs[s].next = 1
    THEN [next |-> 1, user |-> reqs[s].user, status |-> 0, message |-> ""]
    ELSE [next |-> 0, user |-> 0, status |-> reqs[s].status, message |-> reqs[s].message]

\* C20: the outcome of authenticateToken depends only on the access token and
\* the codec: two requests that carry the same token at the same time get the
\* same outcome, whatever refresh rows the store holds when they arrive.
C20_GuardIgnoresRefreshRows ==
    \A s, t \in Slots :
        (/\ Done(s, "me") /\ Done(t, "me")
         /\ Found(s) = Found(t) /\ reqs[s].at = reqs[t].at)
            => GuardOutcome(s) = GuardOutcome(t)

C20_Witness ==
    \E s, t \in Slots :
        /\ Done(s, "me") /\ Done(t, "me")
        /\ Verified(s) /\ Found(s) = Found(t) /\ reqs[s].at = reqs[t].at
        /\ \E r \in reqs[s].rows : r.user_id = Found(s).uid
        /\ ~\E r \in reqs[t].rows : r.user_id = Found(s).uid
        /\ reqs[s].next = 1 /\ reqs[t].next = 1

(* --------------------------- reset-link lookup -------------------------- *)
\* C21: findValidPasswordResetToken does not burn the token: the step that
\* looks a reset link up leaves every user, refresh-token and reset-token row
\* (committed or pending) as it was, so the same lookup made right after it,
\* on whichever connection, returns what it would have returned before.
C21_LookupDoesNotBurn ==
    [][\A s \in Slots :
          (Accept(s) /\ nreq' = nreq + 1 /\ reqs'[s].kind = "lookup")
              => /\ db' = db
                 /\ conns' = conns
                 /\ \A c \in Conns :
                      findValidPasswordResetToken(View(c), reqs'[s].uid, reqs'[s].raw, now)
                        = findValidPasswordResetToken(View(c)', reqs'[s].uid,
                                                      reqs'[s].raw, now')]_vars

C21_Witness ==
    \E s \in Slots :
        /\ Done(s, "lookup") /\ reqs[s].user # 0
        /\ \E c \in Conns :
             findValidPasswordResetToken(View(c), reqs[s].uid, reqs[s].raw, now) # {}

(* --------------------------- response bodies --------------------------- *)
Succeeded(s) == reqs[s].pc = "done" /\ reqs[s].status \in {200, 201}

\* C22: no response of signUp, signIn or getCurrentUser contains the password
\* digest: a success response carries a user object with id and email (and
\* name) only, taken from the user the store returned, and any other response
\* carries no user object.
C22_NoDigestInResponse ==
    \A s \in Slots :
        (reqs[s].kind \in {"signUp", "signIn", "me"} /\ reqs[s].pc = "done")
            => IF Succeeded(s)
               THEN /\ DOMAIN reqs[s].data = {"user"}
                    /\ DOMAIN reqs[s].data.user = {"id", "email"}
                    /\ reqs[s].data.user.id = reqs[s].found.id
                    /\ reqs[s].data.user.email = reqs[s].found.email
               ELSE reqs[s].data = NoData

C22_Witness ==
    \E s, t \in Slots :
        /\ reqs[s].kind = "signIn" /\ Succeeded(s)
        /\ reqs[t].kind = "me" /\ Succeeded(t)
        /\ reqs[s].found.password = hashPassword(InitialPassword)
        /\ reqs[t].found.password = hashPassword(InitialPassword)
        /\ reqs[s].data.user.id = 1 /\ reqs[t].data.user.id = 1

(* ------------------------- what the store holds ------------------------- *)
\* the digests of the raw reset tokens generated so far
IssuedDigests == {hashResetToken(raw) : raw \in 1..(nextRaw - 1)}

\* C23: the raw reset token is never persisted: the token column of every
\* reset row, committed or pending in a transaction, holds the digest of a raw
\* token that forgotPassword generated, never the raw value.
C23_OnlyDigestsStored ==
    /\ \A r \in db.pr : r.token \in IssuedDigests
    /\ \A c \in Conns : \A i \in 1..Len(conns[c].log) :
          conns[c].log[i].type = "insPR" => conns[c].log[i].tok \in IssuedDigests

C23_Witness ==
    \E r \in db.pr : \E m \in mailbox :
        /\ r.user_id = m.uid /\ r.token = hashResetToken(m.raw)
        /\ \A q \in db.pr : q.token \in IssuedDigests

(* ------------------------- faults during refresh ------------------------ *)
\* C24: a store call that fails during a refresh is surfaced as a fault of the
\* infrastructure, not as the 403 'Invalid refresh token' that a bad token gets.
C24_RefreshFaultIsDistinct ==
    \A s \in Slots :
        (Done(s, "refresh") /\ reqs[s].faulted)
            => ~(reqs[s].status = 403 /\ reqs[s].message = "Invalid refresh token")

(* ------------------------ refresh-token uniqueness ---------------------- *)
\* the refresh token a handler has signed and not stored yet
Unstored(s) ==
    /\ reqs[s].newTok # NoTok
    /\ \/ reqs[s].kind \in {"signUp", "signIn"} /\ reqs[s].pc = "store"
       \/ reqs[s].kind = "refresh" /\ reqs[s].pc \in {"begin", "delete"}

Issuer(k) == reqs[k].kind \in {"signUp", "signIn", "refresh"} /\ Succeeded(k)
\* the request of slot s presents the access token that slot k issued
Presents(s, k) == Done(s, "me") /\ Issuer(k) /\ Found(s) = reqs[k].newAccess

C26_WitnessExpired ==
    \E s, k \in Slots :
        /\ Presents(s, k) /\ reqs[k].kind = "signIn"
        /\ reqs[s].at > reqs[k].newAccess.iat
        /\ reqs[s].status = 403

\* C27: the body of every successful sign-up, sign-in and refresh response
\* carries the pair just issued: data.tokens.accessToken and
\* data.tokens.refreshToken for sign-up and sign-in, data.accessToken and
\* data.refreshToken for refresh.
C27_BodyCarriesTokens ==
    \A s \in Slots : Issuer(s) =>
        IF reqs[s].kind = "refresh"
        THEN /\ {"accessToken", "refreshToken"} \subseteq DOMAIN reqs[s].data
             /\ reqs[s].data.accessToken = reqs[s].newAccess
             /\ reqs[s].data.refreshToken = reqs[s].newTok
        ELSE /\ "tokens" \in DOMAIN reqs[s].data
             /\ reqs[s].data.tokens.accessToken = reqs[s].newAccess
             /\ reqs[s].data.tokens.refreshToken = reqs[s].newTok

(* ------------------------------ validation ----------------------------- *)
\* C28: with the pass-through validation middleware, a sign-up whose email is
\* not an email address is answered 400 and creates no user row.
C28_InvalidEmailRejected ==
    \A s \in Slots :
        (reqs[s].kind = "signUp" /\ "email" \in reqs[s].errors
         /\ reqs[s].pc = "done" /\ ~reqs[s].faulted)
            => /\ reqs[s].status = 400
               /\ \A c \in Conns : \A u \in View(c).users : u.email # reqs[s].email

(* ---------------------------- inactive users --------------------------- *)
\* C29: findByEmail and findById return only rows that match and are active,
\* and nothing (null, no throw) for an inactive row as for an absent one; so a
\* sign-in with the email of a deactivated user is answered 401 'Invalid
\* credentials' and a refresh with a token of theirs that verifies is answered
\* 403 'Invalid refresh token', neither issuing a token pair (a lookup that
\* the store fails is not a lookup of an inactive user).
C29_InactiveIsNotFound ==
    [][/\ \A c \in Conns : \A row \in View(c).users :
            /\ findByEmail(View(c), row.email) = IF row.is_active THEN {row} ELSE {}
            /\ findById(View(c), row.id) = IF row.is_active THEN {row} ELSE {}
       /\ \A c \in Conns :
            findByEmail(View(c), UnknownEmail) = {} /\ findById(View(c), NewUserId + 1) = {}
       /\ \A s \in Slots : \A row \in db.users :
            (~row.is_active /\ Accept(s) /\ nreq' = nreq + 1 /\ ~reqs'[s].faulted)
                => /\ (reqs'[s].kind = "signIn" /\ reqs'[s].email = row.email)
                        => /\ reqs'[s].pc = "done" /\ reqs'[s].status = 401
                           /\ reqs'[s].message = "Invalid credentials"
                           /\ reqs'[s].cookies # "set"
                   /\ (reqs'[s].kind = "refresh" /\ reqs'[s].tok.uid = row.id
                       /\ verifyRefreshToken(reqs'[s].tok, now))
                        => /\ reqs'[s].pc = "done" /\ reqs'[s].status = 403
                           /\ reqs'[s].message = "Invalid refresh token"
                           /\ reqs'[s].cookies # "set"]_vars

\* a deactivated user with a live refresh-token row was refused a sign-in with
\* the right password and a refresh with that token, the store having failed
\* neither lookup and no write to the row being pending
C29_Witness ==
    \E s, k \in Slots : \E row \in db.users :
        /\ ~row.is_active
        /\ ~reqs[s].faulted /\ ~reqs[k].faulted
        /\ \A c \in Conns : conns[c].log = <<>>
        /\ Done(s, "signIn") /\ reqs[s].email = row.email
        /\ comparePassword(reqs[s].pw, row.password) /\ reqs[s].status = 401
        /\ Done(k, "refresh") /\ reqs[k].tok.uid = row.id /\ reqs[k].status = 403
        /\ \E r \in db.rt : r.user_id = row.id /\ r.token = reqs[k].tok
                              /\ r.expires_at > now

(* ------------------------- the store is the authority ------------------ *)
\* the rows d hold, for the token of request r, a row (decoded userId, token)
\* that expires later than now, and its user is active
Live(d, r) ==
    /\ \E row \in d.rt : /\ row.user_id = r.tok.uid /\ row.token = r.tok
                          /\ row.expires_at > now
    /\ \E u \in d.users : u.id = r.tok.uid /\ u.is_active

\* C30: a refresh succeeds if and only if the token verifies and the store
\* holds a row (decoded userId, token) with expires_at > now whose user is
\* active.  The request goes on to rotate only if the token verifies and the
\* row is live on a connection of the pool, and it does go on when the token
\* verifies and the row is live on all of them (the store failing no call of
\* the request); a request that does not go on is answered 403 at once; 200 and
\* the token pair are given to requests that went on only, and to every one of
\* them that the store did not fail.
C30_StoreIsAuthority ==
    [][\A s \in Slots :
          LET r == reqs'[s] IN
          /\ (Accept(s) /\ nreq' = nreq + 1 /\ r.kind = "refresh" /\ ~r.faulted)
                => /\ r.pc = "begin"
                        => verifyRefreshToken(r.tok, now) /\ \E c \in Conns : Live(View(c), r)
                   /\ (verifyRefreshToken(r.tok, now) /\ \A c \in Conns : Live(View(c), r))
                        => r.pc = "begin"
                   /\ r.pc # "begin"
                        => /\ r.pc = "done" /\ r.status = 403
                           /\ r.message = "Invalid refresh token"
                           /\ r.cookies # "set" /\ r.newTok = NoTok
          /\ (r.kind = "refresh" /\ r.pc = "done")
                => /\ (r.status = 200 \/ r.cookies = "set") => r.newTok # NoTok
                   /\ (r.newTok # NoTok /\ ~r.faulted)
                        => r.status = 200 /\ r.cookies = "set"]_vars

\* the aged token, which verifies, was refused by the store check because its
\* row had expired: no rotation had touched the row, the user was active and
\* the store had failed no call
C30_Witness ==
    \E k \in Slots :
        /\ Done(k, "refresh") /\ reqs[k].tok = AgedTok /\ reqs[k].status = 403
        /\ reqs[k].cookies = "cleared"
        /\ verifyRefreshToken(AgedTok, now)
        /\ ~reqs[k].faulted /\ rotated = {} /\ \A c \in Conns : conns[c].log = <<>>
        /\ \E u \in db.users : u.id = AgedTok.uid /\ u.is_active
        /\ \E row \in db.rt : /\ row.user_id = AgedTok.uid /\ row.token = AgedTok
                                /\ row.expires_at <= now

(* ----------------- password change against in-flight refresh ----------- *)
\* C31: once a successful resetPassword and a refresh that presented a token
\* issued to the same user before the reset have both completed, the user has
\* no refresh-token row, committed or pending on any connection.
C31_ResetEndsInFlightSessions ==
    \A s, k \in Slots :
        (/\ Done(s, "reset") /\ reqs[s].status = 200
         /\ Done(k, "refresh") /\ reqs[k].uid = reqs[s].uid
         /\ reqs[k].tok \in revoked)
            => \A c \in Conns : \A r \in db.rt \cup View(c).rt : r.user_id # reqs[s].uid

(* ------------------------ isolation of transactions -------------------- *)
\* the pending write e was issued by the operation of request r
Own(r, e) ==
    CASE r.kind = "refresh" ->
            \/ e.type = "delRT" /\ e.user = r.uid /\ e.tok = r.tok
            \/ e.type = "insRT" /\ e.tok = r.newTok
      [] r.kind \in {"signIn", "signUp"} ->
            \/ e.type = "insUser" /\ e.user = r.email.addr
            \/ e.type = "insRT" /\ e.tok = r.newTok
      [] r.kind \in {"forgot", "reset"} ->
            e.type \in {"setPw", "delAllRT", "invalPR", "insPR"} /\ e.user = r.uid
      [] OTHER -> FALSE

\* the pending writes of connection c that the step ends, by discarding them
\* (ROLLBACK) or by making them visible (COMMIT)
Ended(c) ==
    IF conns'[c] # conns[c] /\ conns'[c].log = <<>>
    THEN {conns[c].log[i] : i \in 1..Len(conns[c].log)} ELSE {}

\* C32: the ROLLBACK of a failing operation discards, and the COMMIT of an
\* operation makes visible, no pending write other than that operation's own.
C32_TransactionsIsolated ==
    [][\A s \in Slots :
          (reqs[s].pc \in {"rollback", "commit"} /\ reqs'[s].pc # reqs[s].pc)
              => \A c \in Conns : \A e \in Ended(c) : Own(reqs[s], e)]_vars

(* ------------------------ sign-up that ends in error ------------------- *)
\* C33: a signUp that is answered with an error after its User.create inserted
\* the user row and read it back leaves no committed user row with its email.
C33_FailedSignUpLeavesNoUser ==
    \A s \in Slots :
        (Done(s, "signUp") /\ reqs[s].status # 201 /\ reqs[s].found # NoUser)
            => \A u \in db.users : u.email # reqs[s].email

(* -------------------- a reset link is bound to its user ---------------- *)
\* the link raw was mailed to a user other than uid, never to uid, and is valid
\* for that user on every connection
ValidForAnother(uid, raw) ==
    /\ \A m \in mailbox : m.raw = raw => m.uid # uid
    /\ \E m \in mailbox :
          /\ m.raw = raw
          /\ \A c \in Conns : findValidPasswordResetToken(View(c), m.uid, raw, now) # {}

\* C34: resetPassword(userId, token, newPassword) with a token that is valid
\* for a different user is answered 400 'Invalid or expired reset token' and
\* writes nothing: no password digest, refresh row or reset row changes,
\* committed or pending (the store failing no call of the request).
C34_ResetLinkBoundToUser ==
    [][\A s \in Slots :
          (/\ Accept(s) /\ nreq' = nreq + 1 /\ reqs'[s].kind = "reset"
           /\ ~reqs'[s].faulted /\ ValidForAnother(reqs'[s].uid, reqs'[s].raw))
              => /\ reqs'[s].pc = "done" /\ reqs'[s].status = 400
                 /\ reqs'[s].message = "Invalid or expired reset token"
                 /\ db' = db /\ conns' = conns]_vars

\* user 1's valid link was presented with the id of the second account and
\* refused, and is still valid for user 1
C34_Witness ==
    \E s \in Slots :
        /\ Done(s, "reset") /\ reqs[s].uid = NewUserId /\ reqs[s].status = 400
        /\ ~reqs[s].faulted /\ ValidForAnother(NewUserId, reqs[s].raw)
        /\ \E u \in db.users : u.id = NewUserId /\ u.is_active

(* ------------------------ sessions are independent --------------------- *)
\* the committed refresh-token rows the step removes
RemovedRows == db.rt \ db'.rt

\* a DELETE ... WHERE user_id = ? AND token = ? for exactly the row r, presented
\* by a refresh or a sign-out, is pending on a connection or runs in this step
PresentedDelete(r) ==
    \/ \E c \in Conns : \E i \in 1..Len(conns[c].log) :
          conns[c].log[i] = DeleteRT(r.user_id, r.token)
    \/ \E s \in Slots : /\ reqs[s].kind = "refresh" /\ reqs[s].pc = "delete"
                         /\ reqs[s].uid = r.user_id /\ reqs[s].tok = r.token
    \/ \E s \in Slots : /\ reqs'[s].kind = "signOut" /\ reqs[s] # reqs'[s]
                         /\ signOutUserId = r.user_id /\ reqs'[s].tok = r.token

\* the DELETE ... WHERE user_id = ? of a password reset for the user of row r
\* is pending on a connection or runs in this step
ResetDelete(r) ==
    \/ \E c \in Conns : \E i \in 1..Len(conns[c].log) :
          conns[c].log[i] = DeleteAllRT(r.user_id)
    \/ \E s \in Slots : /\ reqs[s].kind = "reset" /\ reqs[s].pc \in {"clear", "clear2"}
                         /\ reqs[s].uid = r.user_id

SessionRows(u) == {r \in db.rt : r.user_id = u}

\* C36: where the only traffic is refresh, a user has no more refresh-token
\* rows than sessions they signed in for (one each, stored before the traffic
\* began): refreshes, however interleaved, never raise the count.
C36_RotationConservesSessions ==
    \A u \in UserIds : Cardinality(SessionRows(u)) <= Cardinality({r \in InitDb.rt : r.user_id = u})

(* ------------------------------ updateProfile -------------------------- *)
\* C37: updateProfile never changes a password digest, whatever the payload:
\* every user row keeps its password across the call, committed and as read on
\* each connection; and a payload whose only field is the password is rejected
\* with an error and writes nothing.
C37_ProfileKeepsPassword ==
    [][\A s \in Slots :
          (Accept(s) /\ nreq' = nreq + 1 /\ reqs'[s].kind = "profile")
              => /\ \A u \in db.users : \E v \in db'.users :
                        v.id = u.id /\ v.password = u.password
                 /\ \A c \in Conns : \A u \in View(c).users : \E v \in View(c)'.users :
                        v.id = u.id /\ v.password = u.password
                 /\ \A k \in reqs'[s].keys : Column(k) = "password"
                        => /\ reqs'[s].pc = "done" /\ reqs'[s].status = 500
                           /\ db' = db /\ conns' = conns]_vars

(* --------------------------- header before cookie ---------------------- *)
\* C38: the access guard takes the token of the Authorization header and turns
\* to the accessToken cookie only when the header yields none: a header token
\* that fails verification is answered 403 and the handler does not run, even
\* beside a valid cookie; a header token that verifies authenticates its user
\* whatever the cookie holds; and with no header token a valid cookie
\* authenticates the cookie's user.
C38_HeaderBeforeCookie ==
    \A s \in Slots : Done(s, "me") =>
        LET h == headerToken(reqs[s].hdr)
            k == reqs[s].jar
        IN  /\ (~falsy(h) /\ ~verifyAccessToken(h, reqs[s].at)) =>
                  /\ reqs[s].status = 403
                  /\ reqs[s].message = "Invalid or expired token"
                  /\ reqs[s].next = 0 /\ reqs[s].user = 0
            /\ (~falsy(h) /\ verifyAccessToken(h, reqs[s].at)) =>
                  reqs[s].next = 1 /\ reqs[s].user = h.uid
            /\ (falsy(h) /\ k.parsed /\ ~falsy(k.accessToken)
                    /\ verifyAccessToken(k.accessToken, reqs[s].at)) =>
                  reqs[s].next = 1 /\ reqs[s].user = k.accessToken.uid

C38_Witness ==
    \E s, t \in Slots :
        /\ Done(s, "me") /\ ~falsy(headerToken(reqs[s].hdr))
        /\ ~verifyAccessToken(headerToken(reqs[s].hdr), reqs[s].at)
        /\ reqs[s].jar.parsed /\ ~falsy(reqs[s].jar.accessToken)
        /\ verifyAccessToken(reqs[s].jar.accessToken, reqs[s].at)
        /\ reqs[s].status = 403
        /\ Done(t, "me") /\ falsy(headerToken(reqs[t].hdr))
        /\ reqs[t].jar.parsed /\ verifyAccessToken(reqs[t].jar.accessToken, reqs[t].at)
        /\ reqs[t].status = 200 /\ reqs[t].user = reqs[t].jar.accessToken.uid

(* ----------------------------- initialization -------------------------- *)
InitSucceeded(l) == \E i \in InitCalls : l.inits[i] = "ok"
\* C39: routes are obtainable only after a successful initialization:
\* construction yields an instance exactly when both JWT secrets and the
\* database host, database, username and password are given, and throws
\* otherwise; setupApp, getRoutes and getTokenRoutes throw 'Authentication
\* system not initialized' exactly when no init() has resolved, also after an
\* init() that was rejected; and routes are mounted only after an init() resolved.
C39_RoutesOnlyAfterInit ==
    [][/\ (~lib.built /\ lib' # lib) =>
            /\ lib'.built <=> lib'.options = AllOptions
            /\ ~lib'.built => lib'.thrown # ""
            /\ (~lib'.options.secret \/ ~lib'.options.refreshSecret)
                  => lib'.thrown = "JWT secrets are required"
       /\ lib'.calls = lib.calls + 1 =>
            /\ lib'.last.call \in {"setupApp", "getRoutes", "getTokenRoutes"}
            /\ lib'.last.threw <=> ~InitSucceeded(lib)
            /\ lib'.last.threw => lib'.last.message = NotInitializedMessage
            /\ lib'.last.threw => lib'.mounted = lib.mounted
       /\ lib'.mounted => InitSucceeded(lib')]_vars

C39_Witness ==
    /\ lib.built /\ ~InitSucceeded(lib)
    /\ \E i \in InitCalls : lib.last.after[i] = "failed"
    /\ lib.last.call = "getRoutes" /\ lib.last.threw
====
